---- MODULE Spec2Model ----
(***************************************************************************)
(* strava-mcp: the resilient API client (internal/strava/client.go), the   *)
(* sync service (internal/sync/sync.go) and the background workers         *)
(* (internal/workers/workers.go), over the SQL store (sql/queries.sql).    *)
(***************************************************************************)
EXTENDS Integers, Sequences, FiniteSets, TLC

(***************************************************************************)
(* Bounds of the model.                                                    *)
(***************************************************************************)
\* RetryConfig.MaxRetries, copied into retryablehttp.Client.RetryMax
RetryMax == 2
\* the server's activity list has at most MaxActs activities, split into
\* non-empty pages in every way
MaxActs == 3
\* ZoneSyncer.batchSize
batchSize == 3
\* the zone syncer starts with at most MaxBacklog activities without zones
MaxBacklog == 4
\* syncZonesContinuously is invoked at most MaxRuns times
MaxRuns == 2
\* the ids of the rows handed to CreateActivity directly
MaxIds == 2
\* CreateActivity is called directly at most MaxCalls times
MaxCalls == 3
\* a zone of the server has at most MaxBuckets distribution buckets
MaxBuckets == 2
\* the activities without zones when the zone syncer is followed to its return
MaxShutdownBacklog == 2
\* the largest usage a rate limit header reports to the client on its own
MaxUsage == 9
\* calls of SyncZonesForActivity made one after the other
MaxEnrich == 3
\* the largest attempt number Backoff is called with
MaxAttemptNum == 65

(***************************************************************************)
(* Program constants.                                                      *)
(***************************************************************************)
rateLimitBuffer == 5
maxConsecutiveRateLimits == 3
StatusOK == 200
StatusPaymentRequired == 402
StatusNotFound == 404
StatusTooManyRequests == 429

Max(a, b) == IF a >= b THEN a ELSE b

(***************************************************************************)
(* Rate limit headers.  A header value is the list of its comma separated  *)
(* parts; a part is a number or something strconv.Atoi rejects.  An absent *)
(* header is the empty list.                                               *)
(***************************************************************************)
Num(n) == [num |-> TRUE, val |-> n]
NotNum == [num |-> FALSE, val |-> 0]

\* strconv.Atoi with the error discarded: 0 when the part is not a number
Atoi(tok) == IF tok.num THEN tok.val ELSE 0

\* parts[k-1] of strings.Split(header, ","), 0 when the part is missing
HeaderPart(parts, k) == IF Len(parts) >= k THEN Atoi(parts[k]) ELSE 0

\* a minimum that takes an unknown limit for a limit of 0
minPlain(a, b) == IF a < b THEN a ELSE b

minPositive(a, b) ==
    IF a <= 0 THEN b
    ELSE IF b <= 0 THEN a
    ELSE IF a < b THEN a ELSE b

\* a predicate that leaves out the boundary usage = limit - rateLimitBuffer
IsApproaching15MinLimitStrict(info) ==
    IF info.Limit15Min = 0 THEN FALSE
    ELSE info.Usage15Min > info.Limit15Min - rateLimitBuffer

IsApproaching15MinLimit(info) ==
    IF info.Limit15Min = 0 THEN FALSE
    ELSE info.Usage15Min >= info.Limit15Min - rateLimitBuffer

IsApproachingDailyLimit(info) ==
    IF info.LimitDaily = 0 THEN FALSE
    ELSE info.UsageDaily >= info.LimitDaily - rateLimitBuffer

\* a wait that looks at the daily window first
RecommendedWaitDailyFirst(info) ==
    IF info.LimitDaily > 0 /\ info.UsageDaily >= info.LimitDaily THEN "daily"
    ELSE IF info.Limit15Min > 0 /\ info.Usage15Min >= info.Limit15Min THEN "15min"
    ELSE IF info.Limit15Min # 0 /\ info.Usage15Min >= info.Limit15Min - rateLimitBuffer
    THEN "15min"
    ELSE IF info.LimitDaily # 0 /\ info.UsageDaily >= info.LimitDaily - rateLimitBuffer
    THEN "daily"
    ELSE "none"

\* The window whose reset time becomes RecommendedWait ("none": no wait, a
\* RecommendedWait of 0).  Both reset times are 2 seconds or more
\* (timeUntilNext15MinWindow, timeUntilMidnightUTC), so the wait is 0 only
\* when no branch assigns it.
RecommendedWait(info) ==
    IF info.Limit15Min > 0 /\ info.Usage15Min >= info.Limit15Min THEN "15min"
    ELSE IF info.LimitDaily > 0 /\ info.UsageDaily >= info.LimitDaily THEN "daily"
    ELSE IF IsApproaching15MinLimit(info) THEN "15min"
    ELSE IF IsApproachingDailyLimit(info) THEN "daily"
    ELSE "none"

\* Whether the exceeded branches set IsRateLimited
Exceeded(info) ==
    \/ info.Limit15Min > 0 /\ info.Usage15Min >= info.Limit15Min
    \/ info.LimitDaily > 0 /\ info.UsageDaily >= info.LimitDaily

parseRateLimitHeaders(h) ==
    LET generalLimit15Min == HeaderPart(h.limit, 1)
        generalLimitDaily == HeaderPart(h.limit, 2)
        generalUsage15Min == HeaderPart(h.usage, 1)
        generalUsageDaily == HeaderPart(h.usage, 2)
        readLimit15Min == HeaderPart(h.readLimit, 1)
        readLimitDaily == HeaderPart(h.readLimit, 2)
        readUsage15Min == HeaderPart(h.readUsage, 1)
        readUsageDaily == HeaderPart(h.readUsage, 2)
        info == [Limit15Min |-> minPositive(generalLimit15Min, readLimit15Min),
                 LimitDaily |-> minPositive(generalLimitDaily, readLimitDaily),
                 Usage15Min |-> Max(generalUsage15Min, readUsage15Min),
                 UsageDaily |-> Max(generalUsageDaily, readUsageDaily),
                 IsRateLimited |-> FALSE]
    IN  [info EXCEPT !.IsRateLimited = Exceeded(info)]

\* The zero value of RateLimitInfo: the state of a client just constructed
ZeroRateLimit ==
    [Limit15Min |-> 0, LimitDaily |-> 0, Usage15Min |-> 0, UsageDaily |-> 0,
     IsRateLimited |-> FALSE]

\* no response has been given to parseRateLimitHeaders
NoParse ==
    [asked |-> FALSE, enc |-> "absent",
     general |-> [l15 |-> 0, ld |-> 0, u15 |-> 0, ud |-> 0],
     read |-> [l15 |-> 0, ld |-> 0, u15 |-> 0, ud |-> 0],
     info |-> ZeroRateLimit]

\* Client.GetRateLimit: the stored info with the wait recomputed
GetRateLimit(stored) ==
    [Limit15Min |-> stored.Limit15Min, LimitDaily |-> stored.LimitDaily,
     Usage15Min |-> stored.Usage15Min, UsageDaily |-> stored.UsageDaily,
     IsRateLimited |-> stored.IsRateLimited \/ Exceeded(stored),
     RecommendedWait |-> RecommendedWait(stored)]

\* Client.updateRateLimit: the value stored for a response
updateRateLimit(status, h) ==
    LET rateLimit == parseRateLimitHeaders(h)
    IN  IF status = StatusTooManyRequests
        THEN [rateLimit EXCEPT !.IsRateLimited = TRUE]
        ELSE rateLimit

\* What a caller learns of the quota state right after a response with
\* headers h has been stored over stored state: the snapshot of GetRateLimit,
\* the answers of its methods, and the RecommendedWait of the
\* RateLimitInfo parseRateLimitHeaders built from h itself.
QuotaCheck(status, h) ==
    LET info == GetRateLimit(updateRateLimit(status, h))
    IN  [asked |-> TRUE,
         info |-> info,
         ShouldWaitForRateLimit |-> info.RecommendedWait,
         IsApproaching15MinLimit |-> IsApproaching15MinLimit(info),
         IsApproachingDailyLimit |-> IsApproachingDailyLimit(info),
         parsed |-> parseRateLimitHeaders(h),
         parsedWait |-> RecommendedWait(parseRateLimitHeaders(h))]

\* no snapshot has been asked for
NoCheck == [QuotaCheck(StatusOK, [limit |-> <<>>, usage |-> <<>>, readLimit |-> <<>>,
                                  readUsage |-> <<>>]) EXCEPT !.asked = FALSE]

\* The usage and limit figures of a RateLimitInfo
Quota(info) ==
    <<info.Limit15Min, info.Usage15Min, info.LimitDaily, info.UsageDaily>>

\* The headers the server sends: none, or the general and the read pair
\* with limits 20,40 and 10,30 and a usage of the read windows that nears
\* the limit of the short one (6 of 10) or of the daily one (26 of 30).
Hdr(l, u, rl, ru) == [limit |-> l, usage |-> u, readLimit |-> rl, readUsage |-> ru]
NoHeaders == Hdr(<<>>, <<>>, <<>>, <<>>)
HeaderSet ==
    {NoHeaders}
    \cup { Hdr(<<Num(20), Num(40)>>, <<Num(1), Num(2)>>,
               <<Num(10), Num(30)>>, <<Num(u15), Num(ud)>>) :
           u15 \in {6}, ud \in {2} }
    \cup { Hdr(<<Num(20), Num(40)>>, <<Num(1), Num(2)>>,
               <<Num(10), Num(30)>>, <<Num(1), Num(26)>>) }

(***************************************************************************)
(* The reset times.  Durations are in milliseconds, and an instant is a    *)
(* reading of the UTC clock to the millisecond with the offset, in         *)
(* minutes, of the zone it is shown in.                                    *)
(***************************************************************************)
Second == 1000
Minute == 60 * Second
Hour == 60 * Minute

\* now.Minute(): the minute of the hour in the zone of now
MinuteOf(now) == (now.minute + now.offset) % 60

\* a reset time that counts whole minutes
timeUntilNext15MinWindowWholeMinutes(now) ==
    LET minute == MinuteOf(now)
        nextBoundary == ((minute \div 15) + 1) * 15
    IN  (nextBoundary - minute) * Minute + 2 * Second

timeUntilNext15MinWindow(now) ==
    LET minute == MinuteOf(now)
        second == now.second
        nano == now.ms
        boundary == ((minute \div 15) + 1) * 15
        nextBoundary == IF boundary >= 60 THEN 0 ELSE boundary
        minutesUntil == IF nextBoundary = 0 THEN 60 - minute ELSE nextBoundary - minute
        waitDuration == minutesUntil * Minute - second * Second - nano
    IN  waitDuration + 2 * Second

\* time.Date(y, m, d+1, 0, 0, 0, 0, time.UTC).Sub(nowUTC): from the UTC
\* reading to the start of the next UTC day
timeUntilMidnightUTC(now) ==
    LET sinceMidnight == now.hour * Hour + now.minute * Minute
                            + now.second * Second + now.ms
    IN  (24 * Hour - sinceMidnight) + 2 * Second

\* no instant has been given
NoClock ==
    [asked |-> FALSE,
     now |-> [hour |-> 0, minute |-> 0, second |-> 0, ms |-> 0, offset |-> 0],
     wait15 |-> 0, waitDay |-> 0]

(***************************************************************************)
(* time.Duration: an int64 count of nanoseconds, in two's complement.  A   *)
(* value is the set of the positions of its 1 bits; bit 63 is the sign.    *)
(***************************************************************************)
WordBits == 64

\* the word of a number below 2^31
Word(v) == { b \in 0..30 : (v \div (2 ^ b)) % 2 = 1 }

\* a + b in 64 bits: bit k of the sum takes the carry of the nearest lower
\* position where both have a 1 and from which every position up to k has
\* a 1 in one of them; the carry out of bit 63 is lost
Bit(a, k) == IF k \in a THEN 1 ELSE 0
CarryInto(a, b, k) ==
    IF \E j \in 0..(k - 1) :
          /\ j \in a
          /\ j \in b
          /\ \A i \in (j + 1)..(k - 1) : i \in a \/ i \in b
    THEN 1 ELSE 0
Add(a, b) ==
    { k \in 0..(WordBits - 1) : (Bit(a, k) + Bit(b, k) + CarryInto(a, b, k)) % 2 = 1 }

\* a << n: the bits shifted past bit 63 are lost
Shl(a, n) == { b + n : b \in a } \cap (0..(WordBits - 1))

\* a * b in 64 bits
RECURSIVE Mul(_, _)
Mul(a, b) ==
    IF b = {} THEN {}
    ELSE LET low == CHOOSE j \in b : \A i \in b : j <= i
         IN  Add(Shl(a, low), Mul(a, b \ {low}))

Negative(a) == (WordBits - 1) \in a

\* a > b, signed
Greater(a, b) ==
    IF Negative(a) # Negative(b) THEN Negative(b)
    ELSE \E k \in a \ b : \A j \in b \ a : j < k

\* time.Second and time.Minute, in nanoseconds
SecondNs == Word(1000000000)
MinuteNs == Mul(Word(60), SecondNs)
defaultInitialBackoff == Mul(Word(1), SecondNs)
defaultMaxBackoff == Mul(Word(5), MinuteNs)

\* client.Backoff for a failure that is not a 429:
\* min * time.Duration(1<<uint(attemptNum)), capped at max
ExponentialBackoff(min, max, attemptNum) ==
    LET wait == Mul(min, Shl(Word(1), attemptNum))
    IN  IF Greater(wait, max) THEN max ELSE wait

\* Backoff has not been called
NoBackoff ==
    [called |-> FALSE, min |-> {}, max |-> {}, attemptNum |-> 0, wait |-> {},
     prev |-> {}]

(***************************************************************************)
(* retryablehttp.Client with the CheckRetry and Backoff of                 *)
(* newClientWithConfig.                                                    *)
(***************************************************************************)
\* The status codes the server answers with: those the client names, 401 for
\* a code it has no case for, and 500 for the codes from 500 up
Statuses == {StatusOK, 401, StatusPaymentRequired, StatusNotFound,
             StatusTooManyRequests, 500}
\* What one HTTP attempt can end as: a response, or a transport failure
Outcomes ==
    [kind : {"resp"}, status : Statuses, hdr : HeaderSet]
    \cup {[kind |-> "neterr", status |-> 0, hdr |-> NoHeaders]}
CtxOutcome == [kind |-> "ctx", status |-> 0, hdr |-> NoHeaders]

\* client.CheckRetry: TRUE when the attempt is to be retried
CheckRetry(out) ==
    IF out.kind = "ctx" THEN FALSE
    ELSE IF out.kind = "neterr" THEN TRUE
    ELSE IF out.status = StatusPaymentRequired THEN FALSE
    ELSE IF out.status = StatusNotFound THEN FALSE
    ELSE IF out.status = StatusTooManyRequests THEN TRUE
    ELSE IF out.status >= 500 THEN TRUE
    ELSE FALSE

\* a loop that gives up one attempt early
\* a loop that allows one attempt more than RetryMax + 1
DoStepOneMore(out, i) ==
    IF ~CheckRetry(out)
    THEN IF out.kind = "resp" THEN "resp" ELSE "error"
    ELSE IF RetryMax - i < 0 THEN "error"
    ELSE "retry"

DoStepOneShort(out, i) ==
    IF ~CheckRetry(out)
    THEN IF out.kind = "resp" THEN "resp" ELSE "error"
    ELSE IF RetryMax - i <= 1 THEN "error"
    ELSE "retry"

\* One pass of the loop of retryablehttp.Client.Do after attempt number i
\* (from 0): "resp" hands the response to the caller, "error" returns
\* (nil, err) (no ErrorHandler is set), "retry" backs off and tries again.
DoStep(out, i) ==
    IF ~CheckRetry(out)
    THEN IF out.kind = "resp" THEN "resp" ELSE "error"
    ELSE IF RetryMax - i <= 0 THEN "error"
    ELSE "retry"

\* client.Backoff: which wait is chosen before the retry
Backoff(out) ==
    IF out.kind = "resp" /\ out.status = StatusTooManyRequests
    THEN "window" ELSE "exponential"

(***************************************************************************)
(* The server's activity list                                              *)
(***************************************************************************)
\* activity number k of the server
Activity(k) == [id |-> k, name |-> "a", start |-> k]

RECURSIVE Flatten(_)
Flatten(pp) == IF pp = <<>> THEN <<>> ELSE Head(pp) \o Flatten(Tail(pp))

RECURSIVE SumSeq(_)
SumSeq(s) == IF s = <<>> THEN 0 ELSE Head(s) + SumSeq(Tail(s))

\* pages of the given lengths, the activities numbered in list order
PagesOf(lens) ==
    [p \in 1..Len(lens) |->
        [j \in 1..lens[p] |-> Activity(SumSeq(SubSeq(lens, 1, p - 1)) + j)]]

PageLens ==
    { lens \in UNION { [1..n -> 1..MaxActs] : n \in 0..MaxActs } :
        SumSeq(lens) <= MaxActs }
ServerPages == { PagesOf(lens) : lens \in PageLens }

RECURSIVE NonEmptyPages(_)
NonEmptyPages(pp) ==
    IF pp = <<>> THEN <<>>
    ELSE IF Head(pp) = <<>> THEN NonEmptyPages(Tail(pp))
    ELSE <<Head(pp)>> \o NonEmptyPages(Tail(pp))

AfterFilter(pg, after) == SelectSeq(pg, LAMBDA a : a.start > after)

\* GET /athlete/activities?page=p[&after=after]: the p-th page of what is
\* newer than the cursor, empty past the end
ListPage(pp, p, after) ==
    LET left == NonEmptyPages([q \in 1..Len(pp) |-> AfterFilter(pp[q], after)])
    IN  IF p <= Len(left) THEN left[p] ELSE <<>>

VARIABLES
    cancelled,     \* the shared context is done
    srvPages,      \* the pages of the server's activity list
    activities,    \* table activities: a set of rows
    rlA,           \* Client.rateLimit of the activity syncer's client
    pcA,           \* where ActivitySyncer.Run is
    page,          \* FetchAllActivities / FetchActivitiesSince: page
    after,         \* afterEpoch, 0 for a full sync
    attempt,       \* retryablehttp.Client.Do: i
    allActs,       \* allActivities
    saveIdx,       \* position of the save loop in allActs
    n429,          \* 429 responses to the request in progress
    nOther,        \* other retried failures of the request in progress
    lastReq,       \* how the page request that has just returned ended
    progressLog,   \* the calls of the progress callback in this run
    lastHdrA,      \* what the response the client has just received reports
    zoneRows,      \* table activity_zones: row number k has id k
    zoneBuckets,   \* table zone_buckets: the rows of each activity_zone_id
    premiumRequired, \* ZoneSyncer.premiumRequired
    rlZ,           \* Client.rateLimit of the zone syncer's client
    pcZ,           \* where ZoneSyncer.Run is
    withoutZones,  \* syncZonesContinuously: withoutZones
    batchNum,      \* syncZonesContinuously: batchNum
    activityIDs,   \* SyncZones: activityIDs
    idx,           \* SyncZones: position in activityIDs
    synced,        \* SyncZones: synced
    consecutiveRateLimits, \* SyncZones: consecutiveRateLimits
    zAttempt,      \* retryablehttp.Client.Do: i, for the zones request
    zones,         \* SyncZonesForActivity: zones
    zonePos,       \* SyncZonesForActivity: zone, statement and bucket reached
    zoneSrc,       \* per activity_zones row, the buckets last fetched for it
    premiumSeen,   \* a zones request has been answered 402
    skipped,       \* a run has returned at once on premiumRequired
    streak429,     \* items in a row of this batch whose request ended on a 429
    lastZReq,      \* how the zones request that has just returned ended
    lastBatch,     \* what the last SyncZones call returned
    runs,          \* the invocations of syncZonesContinuously so far
    startCount,    \* what CountActivitiesWithoutZones answered this invocation
    calls,         \* the parameters of the CreateActivity calls made directly
    snaps,         \* the table before each of these calls
    pcT,           \* where TokenRefresher.Run is
    zBatchSize,    \* ZoneSyncer.batchSize, as NewZoneSyncer was given it
    entry,         \* the function whose save loop runs over allActs
    quotaCheck,    \* the snapshot GetRateLimit has just returned, and what
                   \* its methods answer
    enrichLog,     \* the calls of SyncZonesForActivity made one after the
                   \* other, each with the zone tables it left
    itemErrs,      \* what SyncZonesForActivity returned for each id of the
                   \* batch so far
    parseCheck,    \* the figures of the two header pairs of a response, and
                   \* what parseRateLimitHeaders made of them
    clockCheck,    \* an instant, and the two reset times computed at it
    backoffCheck   \* a retry configuration, an attempt number, and the waits
                   \* Backoff returned for it and for the one before

aVars == <<rlA, pcA, page, after, attempt, allActs, saveIdx, n429, nOther, lastReq,
           progressLog, lastHdrA>>
zVars == <<zoneRows, zoneBuckets, premiumRequired, rlZ, pcZ, withoutZones, batchNum,
           activityIDs, idx, synced, consecutiveRateLimits, zAttempt, zones, zonePos,
           zoneSrc, premiumSeen, skipped, streak429, lastZReq, lastBatch, runs,
           startCount>>
sVars == <<calls, snaps>>
fVars == <<parseCheck, clockCheck, backoffCheck>>
cVars == <<enrichLog, itemErrs, fVars>>
xVars == <<pcT, zBatchSize, entry, quotaCheck, cVars>>
vars == <<cancelled, srvPages, activities, aVars, zVars, sVars, xVars>>

\* a database call made with the context: it fails once the context is done
DbResults == IF cancelled THEN {FALSE} ELSE BOOLEAN

(***************************************************************************)
(* The store (sql/queries.sql) and the conversion to its parameters        *)
(***************************************************************************)
toNullTime(v) == [Time |-> v, Valid |-> v # 0]

ConvertActivityToParams(a) ==
    [id |-> a.id, name |-> a.name, start |-> toNullTime(a.start)]

\* an INSERT that keeps the row it finds
CreateActivityKeepsFirst(table, params) ==
    IF \E r \in table : r.id = params.id THEN table ELSE table \cup {params}

\* CreateActivity: INSERT ... ON CONFLICT(id) DO UPDATE SET <every field>
CreateActivity(table, params) ==
    IF \E r \in table : r.id = params.id
    THEN { IF r.id = params.id
           THEN [r EXCEPT !.name = params.name, !.start = params.start]
           ELSE r : r \in table }
    ELSE table \cup {params}

\* start_date as ORDER BY sees it: NULL sorts below every date
StartKey(r) == IF r.start.Valid THEN r.start.Time ELSE -1

\* a cursor taken from the oldest row
getLatestActivityDateOldest(table) ==
    IF table = {} THEN 0
    ELSE LET r == CHOOSE r \in table : \A q \in table : StartKey(r) <= StartKey(q)
         IN  IF r.start.Valid THEN r.start.Time ELSE 0

\* getLatestActivityDate over GetRecentActivities(1): the start date of the
\* newest row, the zero time when there is none or it has no date
getLatestActivityDate(table) ==
    IF table = {} THEN 0
    ELSE LET r == CHOOSE r \in table : \A q \in table : StartKey(q) <= StartKey(r)
         IN  IF r.start.Valid THEN r.start.Time ELSE 0

(***************************************************************************)
(* ActivitySyncer (workers.go) over FetchAllActivities /                   *)
(* FetchActivitiesSince / fetchActivitiesPage (client.go)                  *)
(***************************************************************************)
NoReq == [page |-> 0, n429 |-> 0, nOther |-> 0, attempts |-> 0, status |-> 0,
          err |-> "nil", items |-> <<>>, retried |-> FALSE]
NoResp == <<>>

\* fetchActivitiesPage after httpClient.Do returned: the error it returns
\* ("nil" for none).  how is DoStep's verdict, out the last attempt.
PageError(how, out) ==
    IF how = "error" THEN "executing request"
    ELSE IF out.status = StatusTooManyRequests THEN "ErrRateLimited"
    ELSE IF out.status # StatusOK THEN "unexpected status code"
    ELSE "nil"

\* the activities fetchActivitiesPage returns
PageItems(how, out) ==
    IF PageError(how, out) = "nil" THEN ListPage(srvPages, page, after) ELSE <<>>

\* the rate limit the client holds after fetchActivitiesPage: updated from
\* the response Do returned, untouched when Do returned an error
PageRateLimit(how, out, stored) ==
    IF how = "error" THEN stored ELSE updateRateLimit(out.status, out.hdr)

\* what the response just received, if any, reports
Received(out) ==
    IF out.kind = "resp" THEN <<parseRateLimitHeaders(out.hdr)>> ELSE NoResp

\* a count that leaves the page just fetched out
TotalFetchedBefore(all, items) == Len(all)

\* FetchResult.TotalFetched of the progress callback
TotalFetched(all, items) == Len(all) + Len(items)

\* a page loop that returns nil with the error, dropping the pages fetched
AFetchReturnDropsPages(how, out) ==
    LET err == PageError(how, out)
        items == PageItems(how, out)
        result == [page |-> page, count |-> Len(items),
                   total |-> TotalFetched(allActs, items)]
    IN  /\ rlA' = PageRateLimit(how, out, rlA)
        /\ lastReq' = [page |-> page, n429 |-> n429, nOther |-> nOther,
                       attempts |-> attempt + 1, status |-> out.status,
                       err |-> err, items |-> items,
                       retried |-> attempt > 0]
        /\ progressLog' = Append(progressLog, result)
        /\ n429' = 0
        /\ nOther' = 0
        /\ attempt' = 0
        /\ IF err # "nil"
           THEN /\ pcA' = "idle"
                /\ allActs' = <<>>
                /\ UNCHANGED <<page, saveIdx>>
           ELSE IF Len(items) = 0
           THEN \* break: the fetch is over
                /\ page' = page
                /\ allActs' = allActs
                /\ saveIdx' = 1
                /\ pcA' = IF Len(allActs) = 0 THEN "idle" ELSE "save"
           ELSE /\ allActs' = allActs \o items
                /\ page' = page + 1
                /\ pcA' = "send"
                /\ UNCHANGED saveIdx

\* The page loop of FetchAllActivities / FetchActivitiesSince from the return
\* of fetchActivitiesPage on, and what syncActivities does with its result
\* up to the save loop.
AFetchReturn(how, out) ==
    LET err == PageError(how, out)
        items == PageItems(how, out)
        result == [page |-> page, count |-> Len(items),
                   total |-> TotalFetched(allActs, items)]
    IN  /\ rlA' = PageRateLimit(how, out, rlA)
        /\ lastReq' = [page |-> page, n429 |-> n429, nOther |-> nOther,
                       attempts |-> attempt + 1, status |-> out.status,
                       err |-> err, items |-> items,
                       retried |-> attempt > 0]
        /\ progressLog' = Append(progressLog, result)
        /\ n429' = 0
        /\ nOther' = 0
        /\ attempt' = 0
        /\ IF err # "nil"
           THEN \* return allActivities, err: syncActivities logs and returns
                /\ pcA' = "idle"
                /\ UNCHANGED <<page, allActs, saveIdx>>
           ELSE IF Len(items) = 0
           THEN \* break: the fetch is over
                /\ page' = page
                /\ allActs' = allActs
                /\ saveIdx' = 1
                /\ pcA' = IF Len(allActs) = 0 THEN "idle" ELSE "save"
           ELSE /\ allActs' = allActs \o items
                /\ page' = page + 1
                /\ pcA' = "send"
                /\ UNCHANGED saveIdx

\* syncActivities up to the first page request
ARunStart ==
    /\ UNCHANGED <<zVars, sVars, xVars>>
    /\ pcA \in {"init", "idle"}
    /\ \E tokenOk \in BOOLEAN :
         IF ~tokenOk
         THEN /\ pcA' = "idle"
              /\ UNCHANGED <<cancelled, srvPages, activities, rlA, page, after, attempt,
                             allActs, saveIdx, n429, nOther, lastReq, progressLog,
                             lastHdrA>>
         ELSE \* NewClientWithRetryConfig; WaitForRateLimit returns at once, the
              \* new client recommends no wait
              /\ RecommendedWait(ZeroRateLimit) = "none"
              /\ rlA' = ZeroRateLimit
              /\ lastHdrA' = NoResp
              /\ \E dbOk \in BOOLEAN :
                   after' = IF dbOk THEN getLatestActivityDate(activities) ELSE 0
              /\ page' = 1
              /\ allActs' = <<>>
              /\ attempt' = 0
              /\ n429' = 0
              /\ nOther' = 0
              /\ saveIdx' = 1
              /\ progressLog' = <<>>
              /\ lastReq' = NoReq
              /\ pcA' = "send"
              /\ UNCHANGED <<cancelled, srvPages, activities>>

\* one attempt of httpClient.Do for the page request
AHttp ==
    /\ UNCHANGED <<zVars, sVars, xVars>>
    /\ pcA = "send"
    /\ \E out \in (IF cancelled THEN {CtxOutcome} ELSE Outcomes) :
         LET how == DoStep(out, attempt)
         IN  /\ lastHdrA' = Received(out)
             /\ IF how = "retry"
                THEN /\ pcA' = "backoff"
                     /\ n429' = IF Backoff(out) = "window" THEN n429 + 1 ELSE n429
                     /\ nOther' = IF Backoff(out) = "window" THEN nOther ELSE nOther + 1
                     /\ lastReq' = NoReq
                     /\ UNCHANGED <<rlA, page, attempt, allActs, saveIdx, progressLog>>
                ELSE AFetchReturn(how, out)
    /\ UNCHANGED <<cancelled, srvPages, activities, after>>

\* the wait of Do between two attempts: the timer, or the context
ABackoff ==
    /\ UNCHANGED <<zVars, sVars, xVars>>
    /\ pcA = "backoff"
    /\ \/ /\ attempt' = attempt + 1
          /\ pcA' = "send"
          /\ UNCHANGED <<rlA, page, allActs, saveIdx, n429, nOther, lastReq, progressLog>>
       \/ /\ cancelled
          /\ AFetchReturn("error", CtxOutcome)
    /\ lastHdrA' = NoResp
    /\ UNCHANGED <<cancelled, srvPages, activities, after>>

\* The functions that fetch the activity list and save it
EntryPoints == {"syncActivities", "SyncOnce", "Sync", "SyncDelta"}

\* What the save loop of entry point e does with one fetched record:
\* syncActivities and SyncOnce look at the context first and go on after a
\* CreateActivity that failed; Service.Sync and Service.SyncDelta call
\* CreateActivity at once and return its error.
SaveOutcome(e, ctxDone, dbOk) ==
    IF e \in {"syncActivities", "SyncOnce"}
    THEN IF ctxDone THEN "return"
         ELSE IF dbOk THEN "saved" ELSE "skipped"
    ELSE IF dbOk THEN "saved" ELSE "return"

\* one pass of the save loop of the entry point (of syncActivities, for
\* the activity syncer)
ASave ==
    /\ UNCHANGED <<zVars, sVars, xVars>>
    /\ pcA = "save"
    /\ \E dbOk \in DbResults :
         LET outcome == SaveOutcome(entry, cancelled, dbOk)
         IN  /\ activities' =
                   IF outcome = "saved"
                   THEN CreateActivity(activities,
                                       ConvertActivityToParams(allActs[saveIdx]))
                   ELSE activities
             /\ IF outcome = "return"
                THEN /\ pcA' = "idle"
                     /\ UNCHANGED saveIdx
                ELSE /\ saveIdx' = saveIdx + 1
                     /\ pcA' = IF saveIdx = Len(allActs) THEN "idle" ELSE "save"
    /\ lastReq' = NoReq
    /\ lastHdrA' = NoResp
    /\ UNCHANGED <<cancelled, srvPages, rlA, page, after, attempt, allActs, n429, nOther,
                   progressLog>>

\* ActivitySyncer.Run leaves its loop
AStop ==
    /\ UNCHANGED <<zVars, sVars, xVars>>
    /\ pcA = "idle"
    /\ cancelled
    /\ pcA' = "stopped"
    /\ UNCHANGED <<cancelled, srvPages, activities, rlA, page, after, attempt, allActs,
                   saveIdx, n429, nOther, lastReq, progressLog, lastHdrA>>

\* the process is told to shut down
Cancel ==
    /\ ~cancelled
    /\ cancelled' = TRUE
    /\ UNCHANGED <<srvPages, activities, aVars, zVars, sVars, xVars>>

(***************************************************************************)
(* The zone tables (sql/queries.sql) and the zones endpoint                *)
(***************************************************************************)
\* bucket number k of an answer; Time is in tenths of a second (a float)
Bucket(k) == [Min |-> 10 * (k - 1), Max |-> 10 * k, Time |-> 15 * k]
Zone(type, sensor, n) ==
    [Type |-> type, SensorBased |-> sensor,
     DistributionBuckets |-> [k \in 1..n |-> Bucket(k)]]

\* what GET /activities/{id}/zones answers with a 200
ZoneAnswers ==
    { <<>>,
      <<Zone("heartrate", TRUE, 1), Zone("power", FALSE, MaxBuckets)>> }

\* int64(bucket.Time): the float truncated
TimeSeconds(t) == t \div 10

\* db.CreateZoneBucketParams for bucket number i (from 1) of a zone
BucketParams(bucket, i) ==
    [zone_number |-> i, min_value |-> bucket.Min, max_value |-> bucket.Max,
     time_seconds |-> TimeSeconds(bucket.Time)]

\* db.CreateActivityZoneParams
ZoneParams(activityID, zone) ==
    [activity_id |-> activityID, zone_type |-> zone.Type,
     sensor_based |-> IF zone.SensorBased THEN 1 ELSE 0]

\* CreateActivityZone: INSERT ... ON CONFLICT(activity_id, zone_type)
\* DO UPDATE SET sensor_based ... RETURNING id
CreateActivityZone(rows, params) ==
    IF \E k \in 1..Len(rows) : /\ rows[k].activity_id = params.activity_id
                               /\ rows[k].zone_type = params.zone_type
    THEN LET k == CHOOSE k \in 1..Len(rows) :
                      /\ rows[k].activity_id = params.activity_id
                      /\ rows[k].zone_type = params.zone_type
         IN  [rows |-> [rows EXCEPT ![k].sensor_based = params.sensor_based],
              id |-> k]
    ELSE [rows |-> Append(rows, params), id |-> Len(rows) + 1]

\* a delete that leaves the rows of the zone
DeleteZoneBucketsKeeps(buckets, zoneID) == buckets

\* DeleteZoneBucketsForActivityZone
DeleteZoneBuckets(buckets, zoneID) == [buckets EXCEPT ![zoneID] = <<>>]

\* CreateZoneBucket
CreateZoneBucket(buckets, zoneID, params) ==
    [buckets EXCEPT ![zoneID] = Append(@, params)]

\* GetZoneBuckets of the query layer: the rows of a zone ORDER BY zone_number
RECURSIVE SortByZoneNumber(_)
SortByZoneNumber(rows) ==
    IF rows = <<>> THEN <<>>
    ELSE LET k == CHOOSE k \in 1..Len(rows) :
                     \A j \in 1..Len(rows) : rows[k].zone_number <= rows[j].zone_number
         IN  <<rows[k]>> \o
             SortByZoneNumber([j \in 1..(Len(rows) - 1) |->
                                 IF j < k THEN rows[j] ELSE rows[j + 1]])
GetZoneBuckets(zoneID) == SortByZoneNumber(zoneBuckets[zoneID])

\* the activities that no activity_zones row joins
WithoutZones ==
    { r \in activities : ~\E k \in 1..Len(zoneRows) : zoneRows[k].activity_id = r.id }

CountActivitiesWithoutZones == Cardinality(WithoutZones)

\* ids ORDER BY start_date DESC
RECURSIVE NewestFirst(_)
NewestFirst(rows) ==
    IF rows = {} THEN <<>>
    ELSE LET r == CHOOSE r \in rows : \A q \in rows : StartKey(q) <= StartKey(r)
         IN  <<r.id>> \o NewestFirst(rows \ {r})

\* GetActivitiesWithoutZones(limit)
GetActivitiesWithoutZones(limit) ==
    LET ids == NewestFirst(WithoutZones)
    IN  SubSeq(ids, 1, IF Len(ids) <= limit THEN Len(ids) ELSE limit)

(***************************************************************************)
(* ZoneSyncer (workers.go) over SyncZones / SyncZonesForActivity (sync.go) *)
(* and FetchActivityZones (client.go)                                      *)
(***************************************************************************)
NoZReq == [id |-> 0, status |-> 0, err |-> "nil", attempts |-> 0, ctx |-> FALSE]
NoBatch == [synced |-> 0, err |-> "none", done |-> 0, n |-> 0]
NoPos == [zi |-> 0, stmt |-> "none", bi |-> 0, zoneID |-> 0]

\* The error SyncZonesForActivity gets from FetchActivityZones and hands on
\* ("nil" for none); how is DoStep's verdict, out the last attempt.
ZoneFetchError(how, out) ==
    IF how = "error" THEN "fetching zones"
    ELSE IF out.status = StatusPaymentRequired THEN "ErrPremiumRequired"
    ELSE IF out.status = StatusTooManyRequests THEN "ErrRateLimited"
    ELSE IF out.status = StatusNotFound THEN "nil"
    ELSE IF out.status # StatusOK THEN "fetching zones"
    ELSE "nil"

\* the zones FetchActivityZones returns: those of a 200, nil otherwise
ZoneFetchZones(how, out, answer) ==
    IF how = "resp" /\ out.status = StatusOK THEN answer ELSE <<>>

\* the rate limit the client holds after FetchActivityZones
ZoneRateLimit(how, out, stored) ==
    IF how = "error" THEN stored ELSE updateRateLimit(out.status, out.hdr)

\* The control state of the zone syncer
ZCtl ==
    [pc |-> pcZ, ids |-> activityIDs, idx |-> idx, synced |-> synced,
     cons |-> consecutiveRateLimits, premium |-> premiumRequired,
     wz |-> withoutZones, last |-> lastBatch, rl |-> rlZ]

\* syncZonesContinuously from the return of SyncZones with err on, to its
\* next wait or its return.  The locals of SyncZones end with it, and the
\* client of the run ends with the run.
RunReturn(c) == [c EXCEPT !.pc = "idle", !.rl = ZeroRateLimit]
\* a return of SyncZones after which the remaining estimate is not looked at
BatchReturnFullBatchGoesOn(c, err) ==
    LET c1 == [c EXCEPT !.last = [synced |-> c.synced, err |-> err, done |-> c.idx,
                                  n |-> Len(c.ids)],
                        !.ids = <<>>, !.idx = 0, !.synced = 0, !.cons = 0]
    IN  IF err = "ErrPremiumRequired"
        THEN RunReturn([c1 EXCEPT !.premium = TRUE])
        ELSE IF err = "ErrRateLimited"
        THEN [c1 EXCEPT !.pc = IF RecommendedWait(c.rl) # "none" THEN "waitRL" ELSE "loop"]
        ELSE IF err # "nil"
        THEN RunReturn(c1)
        ELSE IF c.synced < zBatchSize
        THEN RunReturn([c1 EXCEPT !.wz = c.wz - c.synced])
        ELSE [c1 EXCEPT !.wz = c.wz - c.synced, !.pc = "pause"]

BatchReturn(c, err) ==
    LET c1 == [c EXCEPT !.last = [synced |-> c.synced, err |-> err, done |-> c.idx,
                                  n |-> Len(c.ids)],
                        !.ids = <<>>, !.idx = 0, !.synced = 0, !.cons = 0]
    IN  IF err = "ErrPremiumRequired"
        THEN RunReturn([c1 EXCEPT !.premium = TRUE])
        ELSE IF err = "ErrRateLimited"
        THEN \* WaitForRateLimit, then continue
             [c1 EXCEPT !.pc = IF RecommendedWait(c.rl) # "none" THEN "waitRL" ELSE "loop"]
        ELSE IF err # "nil"
        THEN RunReturn(c1)
        ELSE IF c.synced < zBatchSize \/ c.wz - c.synced <= 0
        THEN RunReturn([c1 EXCEPT !.wz = c.wz - c.synced])
        ELSE [c1 EXCEPT !.wz = c.wz - c.synced, !.pc = "pause"]

\* SyncZones: on to the next id, or out of the loop
Advance(c) ==
    IF c.idx < Len(c.ids)
    THEN [c EXCEPT !.idx = c.idx + 1, !.pc = "send"]
    ELSE BatchReturn(c, "nil")

\* a loop that takes ErrPremiumRequired for one more failed item
ItemDoneGoesOn(c, err) ==
    IF err # "nil"
    THEN Advance([c EXCEPT !.cons = 0])
    ELSE [c EXCEPT !.synced = c.synced + 1, !.cons = 0, !.pc = "pace"]

\* a loop whose counter outlives an item that failed for another reason
ItemDoneKeepsCount(c, err) ==
    IF err = "ErrPremiumRequired"
    THEN BatchReturn(c, "ErrPremiumRequired")
    ELSE IF err = "ErrRateLimited"
    THEN IF c.cons + 1 >= maxConsecutiveRateLimits
         THEN BatchReturn([c EXCEPT !.cons = c.cons + 1], "ErrRateLimited")
         ELSE Advance([c EXCEPT !.cons = c.cons + 1])
    ELSE IF err # "nil"
    THEN Advance(c)
    ELSE [c EXCEPT !.synced = c.synced + 1, !.cons = 0, !.pc = "pace"]

\* SyncZones from the return of SyncZonesForActivity with err on
ItemDone(c, err) ==
    IF err = "ErrPremiumRequired"
    THEN BatchReturn(c, "ErrPremiumRequired")
    ELSE IF err = "ErrRateLimited"
    THEN IF c.cons + 1 >= maxConsecutiveRateLimits
         THEN BatchReturn([c EXCEPT !.cons = c.cons + 1], "ErrRateLimited")
         ELSE Advance([c EXCEPT !.cons = c.cons + 1])
    ELSE IF err # "nil"
    THEN Advance([c EXCEPT !.cons = 0])
    ELSE [c EXCEPT !.synced = c.synced + 1, !.cons = 0, !.pc = "pace"]

ApplyCtl(c) ==
    /\ pcZ' = c.pc
    /\ rlZ' = c.rl
    /\ activityIDs' = c.ids
    /\ idx' = c.idx
    /\ synced' = c.synced
    /\ consecutiveRateLimits' = c.cons
    /\ premiumRequired' = c.premium
    /\ withoutZones' = c.wz
    /\ lastBatch' = c.last

\* ZoneSyncer.Run: the initial delay
ZDelay ==
    /\ pcZ = "delay"
    /\ \/ pcZ' = "begin"
       \/ cancelled /\ pcZ' = "stopped"
    /\ UNCHANGED <<cancelled, srvPages, activities, aVars, sVars, xVars, runs,
                   startCount, zoneRows, zoneBuckets,
                   premiumRequired, rlZ, withoutZones, batchNum, activityIDs, idx,
                   synced, consecutiveRateLimits, zAttempt, zones, zonePos, zoneSrc,
                   premiumSeen, skipped, streak429, lastZReq, lastBatch>>

\* syncZonesContinuously up to its loop
ZRunStart ==
    /\ pcZ \in {"begin", "idle"}
    /\ runs < MaxRuns
    /\ runs' = runs + 1
    /\ \E dbOk \in DbResults, tokenOk \in BOOLEAN :
         IF premiumRequired
         THEN /\ skipped' = TRUE
              /\ pcZ' = "idle"
              /\ UNCHANGED <<rlZ, withoutZones, batchNum, startCount>>
         ELSE IF ~dbOk \/ CountActivitiesWithoutZones = 0 \/ ~tokenOk
         THEN /\ pcZ' = "idle"
              /\ UNCHANGED <<rlZ, withoutZones, batchNum, skipped, startCount>>
         ELSE /\ withoutZones' = CountActivitiesWithoutZones
              /\ startCount' = CountActivitiesWithoutZones
              /\ rlZ' = ZeroRateLimit
              /\ batchNum' = 0
              /\ pcZ' = "loop"
              /\ UNCHANGED skipped
    /\ lastZReq' = NoZReq
    /\ lastBatch' = NoBatch
    /\ UNCHANGED <<cancelled, srvPages, activities, aVars, sVars, xVars, zoneRows, zoneBuckets,
                   premiumRequired, activityIDs, idx, synced, consecutiveRateLimits,
                   zAttempt, zones, zonePos, zoneSrc, premiumSeen, streak429>>

\* the head of the loop of syncZonesContinuously, and SyncZones up to its
\* first request
ZLoop ==
    /\ pcZ = "loop"
    /\ LET rateLimit == GetRateLimit(rlZ)
       IN  IF IsApproachingDailyLimit(rateLimit)
           THEN /\ ApplyCtl(RunReturn(ZCtl))
                /\ UNCHANGED <<batchNum, streak429>>
           ELSE IF IsApproaching15MinLimit(rateLimit)
           THEN \* WaitForRateLimit
                /\ pcZ' = IF rateLimit.RecommendedWait # "none" THEN "waitRL" ELSE "loop"
                /\ UNCHANGED <<batchNum, rlZ, activityIDs, idx, synced,
                               consecutiveRateLimits, premiumRequired, withoutZones,
                               lastBatch, streak429>>
           ELSE /\ batchNum' = batchNum + 1
                /\ streak429' = 0
                /\ \E dbOk \in DbResults :
                     IF ~dbOk
                     THEN \* SyncZones returns (0, err): the batch failed
                          ApplyCtl(RunReturn([ZCtl EXCEPT !.last =
                              [synced |-> 0, err |-> "getting activities",
                               done |-> 0, n |-> 0]]))
                     ELSE LET ids == GetActivitiesWithoutZones(zBatchSize)
                              c == [ZCtl EXCEPT !.ids = ids, !.idx = 0, !.synced = 0,
                                                !.cons = 0]
                          IN  ApplyCtl(IF ids = <<>>
                                       THEN BatchReturn(c, "nil")
                                       ELSE [c EXCEPT !.idx = 1, !.pc = "send"])
    /\ zAttempt' = 0
    /\ lastZReq' = NoZReq
    /\ UNCHANGED <<cancelled, srvPages, activities, aVars, sVars, xVars, runs,
                   startCount, zoneRows, zoneBuckets,
                   zones, zonePos, zoneSrc, premiumSeen, skipped>>

\* a wait that sleeps until the window's reset without looking at the context
ZWaitRateLimitSleeps ==
    /\ pcZ = "waitRL"
    /\ pcZ' = "loop"
    /\ lastZReq' = NoZReq
    /\ UNCHANGED <<cancelled, srvPages, activities, aVars, sVars, xVars, runs,
                   startCount, zoneRows, zoneBuckets,
                   premiumRequired, rlZ, withoutZones, batchNum, activityIDs, idx,
                   synced, consecutiveRateLimits, zAttempt, zones, zonePos, zoneSrc,
                   premiumSeen, skipped, streak429, lastBatch>>

\* WaitForRateLimit: the window's reset, or the context
ZWaitRateLimit ==
    /\ pcZ = "waitRL"
    /\ \/ pcZ' = "loop"
       \/ cancelled /\ pcZ' = "idle"
    /\ lastZReq' = NoZReq
    /\ UNCHANGED <<cancelled, srvPages, activities, aVars, sVars, xVars, runs,
                   startCount, zoneRows, zoneBuckets,
                   premiumRequired, rlZ, withoutZones, batchNum, activityIDs, idx,
                   synced, consecutiveRateLimits, zAttempt, zones, zonePos, zoneSrc,
                   premiumSeen, skipped, streak429, lastBatch>>

\* the streak of requests that ended on a 429, after this one
Streak(out, n) ==
    IF out.kind = "resp" /\ out.status = StatusTooManyRequests THEN n + 1 ELSE 0

\* one attempt of httpClient.Do for the zones of activityIDs[idx], and, when
\* Do returns, FetchActivityZones and SyncZonesForActivity up to the first
\* statement on the store
ZHttp ==
    /\ pcZ = "send"
    /\ \E out \in (IF cancelled THEN {CtxOutcome} ELSE Outcomes) :
       \E answer \in (IF out.status = StatusOK THEN ZoneAnswers ELSE {<<>>}) :
         LET how == DoStep(out, zAttempt)
             err == ZoneFetchError(how, out)
             got == ZoneFetchZones(how, out, answer)
             rl == ZoneRateLimit(how, out, rlZ)
         IN  /\ premiumSeen' =
                  (premiumSeen \/ (out.kind = "resp" /\ out.status = StatusPaymentRequired))
             /\ IF how = "retry"
                THEN /\ pcZ' = "backoff"
                     /\ lastZReq' = NoZReq
                     /\ UNCHANGED <<rlZ, activityIDs, idx, synced,
                                    consecutiveRateLimits, premiumRequired, withoutZones,
                                    lastBatch, zAttempt, zones, zonePos, streak429>>
                ELSE /\ lastZReq' = [id |-> activityIDs[idx], status |-> out.status,
                                     err |-> err, attempts |-> zAttempt + 1,
                                     ctx |-> out.kind = "ctx"]
                     /\ zAttempt' = 0
                     /\ streak429' = Streak(out, streak429)
                     /\ IF err = "nil" /\ got # <<>>
                        THEN /\ zones' = got
                             /\ zonePos' = [zi |-> 1, stmt |-> "zone", bi |-> 0,
                                            zoneID |-> 0]
                             /\ pcZ' = "persist"
                             /\ rlZ' = rl
                             /\ UNCHANGED <<activityIDs, idx, synced,
                                            consecutiveRateLimits, premiumRequired,
                                            withoutZones, lastBatch>>
                        ELSE /\ ApplyCtl(ItemDone([ZCtl EXCEPT !.rl = rl], err))
                             /\ UNCHANGED <<zones, zonePos>>
    /\ UNCHANGED <<cancelled, srvPages, activities, aVars, sVars, xVars, runs,
                   startCount, zoneRows, zoneBuckets,
                   batchNum, zoneSrc, skipped>>

\* the wait of Do between two attempts: the timer, or the context
ZBackoff ==
    /\ pcZ = "backoff"
    /\ \/ /\ zAttempt' = zAttempt + 1
          /\ pcZ' = "send"
          /\ UNCHANGED <<rlZ, activityIDs, idx, synced, consecutiveRateLimits,
                         premiumRequired, withoutZones, lastBatch, lastZReq, streak429>>
       \/ /\ cancelled
          /\ zAttempt' = 0
          /\ streak429' = 0
          /\ lastZReq' = [id |-> activityIDs[idx], status |-> 0,
                          err |-> "fetching zones", attempts |-> zAttempt + 1,
                          ctx |-> TRUE]
          /\ ApplyCtl(ItemDone(ZCtl, "fetching zones"))
    /\ UNCHANGED <<cancelled, srvPages, activities, aVars, sVars, xVars, runs,
                   startCount, zoneRows, zoneBuckets,
                   batchNum, zones, zonePos, zoneSrc, premiumSeen, skipped>>

\* the position after the statement at pos succeeded: the next bucket, the
\* next zone, or the end of SyncZonesForActivity (stmt "none")
NextPos(pos, zoneID) ==
    LET nb == Len(zones[pos.zi].DistributionBuckets)
    IN  IF pos.stmt = "zone" THEN [pos EXCEPT !.stmt = "delete", !.zoneID = zoneID]
        ELSE IF pos.bi < nb THEN [pos EXCEPT !.stmt = "bucket", !.bi = pos.bi + 1]
        ELSE IF pos.zi < Len(zones)
        THEN [zi |-> pos.zi + 1, stmt |-> "zone", bi |-> 0, zoneID |-> 0]
        ELSE NoPos

\* one statement of SyncZonesForActivity on the store
ZPersist ==
    /\ pcZ = "persist"
    /\ \E dbOk \in DbResults :
         LET zone == zones[zonePos.zi]
             made == CreateActivityZone(zoneRows, ZoneParams(activityIDs[idx], zone))
             next == NextPos(zonePos, made.id)
         IN  IF ~dbOk
             THEN \* the statement failed: SyncZonesForActivity returns the error
                  /\ ApplyCtl(ItemDone(ZCtl, "store"))
                  /\ zonePos' = NoPos
                  /\ zones' = <<>>
                  /\ UNCHANGED <<zoneRows, zoneBuckets, zoneSrc>>
             ELSE /\ IF zonePos.stmt = "zone"
                     THEN /\ zoneRows' = made.rows
                          /\ zoneBuckets' = IF made.id > Len(zoneBuckets)
                                            THEN Append(zoneBuckets, <<>>)
                                            ELSE zoneBuckets
                          /\ zoneSrc' = IF made.id > Len(zoneSrc)
                                        THEN Append(zoneSrc, zone.DistributionBuckets)
                                        ELSE [zoneSrc EXCEPT ![made.id] =
                                                  zone.DistributionBuckets]
                     ELSE IF zonePos.stmt = "delete"
                     THEN /\ zoneBuckets' = DeleteZoneBuckets(zoneBuckets, zonePos.zoneID)
                          /\ UNCHANGED <<zoneRows, zoneSrc>>
                     ELSE /\ zoneBuckets' =
                               CreateZoneBucket(zoneBuckets, zonePos.zoneID,
                                   BucketParams(zone.DistributionBuckets[zonePos.bi],
                                                zonePos.bi))
                          /\ UNCHANGED <<zoneRows, zoneSrc>>
                  /\ zonePos' = next
                  /\ IF next = NoPos
                     THEN /\ ApplyCtl(ItemDone(ZCtl, "nil"))
                          /\ zones' = <<>>
                     ELSE UNCHANGED <<pcZ, rlZ, activityIDs, idx, synced,
                                      consecutiveRateLimits, premiumRequired,
                                      withoutZones, lastBatch, zones>>
    /\ lastZReq' = NoZReq
    /\ UNCHANGED <<cancelled, srvPages, activities, aVars, sVars, xVars, runs,
                   startCount, batchNum, zAttempt,
                   premiumSeen, skipped, streak429>>

\* SyncZones: the delay after an item that was synced, or the context
ZPace ==
    /\ pcZ = "pace"
    /\ \/ ApplyCtl(Advance(ZCtl))
       \/ cancelled /\ ApplyCtl(BatchReturn(ZCtl, "context"))
    /\ lastZReq' = NoZReq
    /\ UNCHANGED <<cancelled, srvPages, activities, aVars, sVars, xVars, runs,
                   startCount, zoneRows, zoneBuckets,
                   batchNum, zAttempt, zones, zonePos, zoneSrc, premiumSeen,
                   skipped, streak429>>

\* syncZonesContinuously: the delay between two batches, or the context
ZPause ==
    /\ pcZ = "pause"
    /\ \/ pcZ' = "loop"
       \/ cancelled /\ pcZ' = "idle"
    /\ UNCHANGED <<cancelled, srvPages, activities, aVars, sVars, xVars, runs,
                   startCount, zoneRows, zoneBuckets,
                   premiumRequired, rlZ, withoutZones, batchNum, activityIDs, idx,
                   synced, consecutiveRateLimits, zAttempt, zones, zonePos, zoneSrc,
                   premiumSeen, skipped, streak429, lastZReq, lastBatch>>

\* ZoneSyncer.Run leaves its loop
ZStop ==
    /\ pcZ = "idle"
    /\ cancelled
    /\ pcZ' = "stopped"
    /\ UNCHANGED <<cancelled, srvPages, activities, aVars, sVars, xVars, runs,
                   startCount, zoneRows, zoneBuckets,
                   premiumRequired, rlZ, withoutZones, batchNum, activityIDs, idx,
                   synced, consecutiveRateLimits, zAttempt, zones, zonePos, zoneSrc,
                   premiumSeen, skipped, streak429, lastZReq, lastBatch>>

(***************************************************************************)
(* Specifications                                                          *)
(***************************************************************************)
(***************************************************************************)
(* TokenRefresher (workers.go)                                             *)
(***************************************************************************)
\* checkAndRefresh, called by Run at its start and for each tick; it takes
\* no context and returns
TCheck ==
    /\ pcT \in {"init", "check"}
    /\ pcT' = "tick"
    /\ UNCHANGED <<cancelled, srvPages, activities, aVars, zVars, sVars, zBatchSize, entry,
                   quotaCheck, cVars>>

\* TokenRefresher.Run: the ticker fires
TTick ==
    /\ pcT = "tick"
    /\ pcT' = "check"
    /\ UNCHANGED <<cancelled, srvPages, activities, aVars, zVars, sVars, zBatchSize, entry,
                   quotaCheck, cVars>>

\* TokenRefresher.Run leaves its loop
TStop ==
    /\ pcT = "tick"
    /\ cancelled
    /\ pcT' = "stopped"
    /\ UNCHANGED <<cancelled, srvPages, activities, aVars, zVars, sVars, zBatchSize, entry,
                   quotaCheck, cVars>>

(***************************************************************************)
(* The quota state on its own: a client that stores the headers of a       *)
(* response and is asked for a snapshot.                                   *)
(***************************************************************************)
\* The limits the headers can report: no limit (0), a limit below the
\* buffer, and limits that a usage of 0..MaxUsage can stay under, near,
\* reach and pass.
ShortLimits == {0, MaxUsage - 6, MaxUsage - 1}
DailyLimits == {0, MaxUsage - 2}
QuotaHeaders ==
    { Hdr(<<Num(l15), Num(ld)>>, <<Num(u15), Num(ud)>>, <<>>, <<>>) :
        l15 \in ShortLimits, ld \in DailyLimits,
        u15 \in 0..MaxUsage, ud \in 0..MaxUsage }

\* updateRateLimit for a 200 response, then GetRateLimit and the methods of
\* the snapshot
QCheck ==
    /\ \E h \in QuotaHeaders :
         /\ rlA' = updateRateLimit(StatusOK, h)
         /\ quotaCheck' = QuotaCheck(StatusOK, h)
    /\ UNCHANGED <<cancelled, srvPages, activities, zVars, sVars, pcT, zBatchSize, entry, cVars,
                   pcA, page, after, attempt, allActs, saveIdx, n429, nOther, lastReq,
                   progressLog, lastHdrA>>

\* the fields and locals of the activity syncer before Run is called
ALocals ==
    /\ rlA = ZeroRateLimit
    /\ page = 1
    /\ after = 0
    /\ attempt = 0
    /\ allActs = <<>>
    /\ saveIdx = 1
    /\ n429 = 0
    /\ nOther = 0
    /\ lastReq = NoReq
    /\ progressLog = <<>>
    /\ lastHdrA = NoResp

AInit ==
    /\ pcA = "init"
    /\ ALocals

\* the fields and locals of the zone syncer before Run is called
ZLocals ==
    /\ zoneRows = <<>>
    /\ zoneBuckets = <<>>
    /\ premiumRequired = FALSE
    /\ rlZ = ZeroRateLimit
    /\ withoutZones = 0
    /\ batchNum = 0
    /\ activityIDs = <<>>
    /\ idx = 0
    /\ synced = 0
    /\ consecutiveRateLimits = 0
    /\ zAttempt = 0
    /\ zones = <<>>
    /\ zonePos = NoPos
    /\ zoneSrc = <<>>
    /\ premiumSeen = FALSE
    /\ skipped = FALSE
    /\ streak429 = 0
    /\ lastZReq = NoZReq
    /\ lastBatch = NoBatch
    /\ runs = 0
    /\ startCount = 0

ZInit ==
    /\ pcZ = "delay"
    /\ zBatchSize = batchSize
    /\ ZLocals

SInit ==
    /\ calls = <<>>
    /\ snaps = <<>>

\* the save loop is that of syncActivities, and nothing has asked for a
\* snapshot of the quota state
\* nothing has been given to the functions that are checked on their own
CLocals ==
    /\ enrichLog = <<>>
    /\ itemErrs = <<>>
    /\ parseCheck = NoParse
    /\ clockCheck = NoClock
    /\ backoffCheck = NoBackoff

XLocals ==
    /\ entry = "syncActivities"
    /\ quotaCheck = NoCheck
    /\ CLocals

TInit ==
    /\ pcT = "init"
    /\ XLocals

\* the activity syncer on an empty store
InitActivity ==
    /\ cancelled = FALSE
    /\ srvPages \in ServerPages
    /\ activities = {}
    /\ AInit
    /\ ZInit
    /\ SInit
    /\ TInit

NextActivity == ARunStart \/ AHttp \/ ABackoff \/ ASave \/ AStop \/ Cancel

SpecActivity == InitActivity /\ [][NextActivity]_vars

\* the zone syncer on a store that holds the first n activities
InitZone ==
    /\ cancelled = FALSE
    /\ srvPages = <<>>
    /\ \E n \in 0..MaxBacklog :
         activities = { ConvertActivityToParams(Activity(k)) : k \in 1..n }
    /\ AInit
    /\ ZInit
    /\ SInit
    /\ TInit

NextZone ==
    \/ ZDelay \/ ZRunStart \/ ZLoop \/ ZWaitRateLimit \/ ZHttp \/ ZBackoff
    \/ ZPersist \/ ZPace \/ ZPause \/ ZStop \/ Cancel

SpecZone == InitZone /\ [][NextZone]_vars

\* The rows a caller can hand to CreateActivity: an id, a name, and a start
\* date that may be missing
ParamSet ==
    { ConvertActivityToParams([id |-> i, name |-> nm, start |-> st]) :
        i \in 1..MaxIds, nm \in {"a", "b"}, st \in {0, 5} }

\* the tables with at most one row per id (id is the primary key)
Tables == { t \in SUBSET ParamSet : \A r, q \in t : r.id = q.id => r = q }

\* queries.CreateActivity called with params
Upsert ==
    /\ Len(calls) < MaxCalls
    /\ \E params \in ParamSet :
         /\ activities' = CreateActivity(activities, params)
         /\ calls' = Append(calls, params)
         /\ snaps' = Append(snaps, activities)
    /\ UNCHANGED <<cancelled, srvPages, aVars, zVars, xVars>>

\* the store alone, holding any table
InitStore ==
    /\ cancelled = FALSE
    /\ srvPages = <<>>
    /\ activities \in Tables
    /\ AInit
    /\ ZInit
    /\ SInit
    /\ TInit

NextStore == Upsert

SpecStore == InitStore /\ [][NextStore]_vars

\* Both syncers of one process, on a server list of one activity and an
\* empty store.  With one activity the zone syncer never has a second batch
\* to pause for, nor a rate limit to wait for.
InitBoth ==
    /\ cancelled = FALSE
    /\ srvPages = <<<<Activity(1)>>>>
    /\ activities = {}
    /\ AInit
    /\ ZInit
    /\ SInit
    /\ TInit

NextBoth ==
    \/ ARunStart \/ AHttp \/ ABackoff \/ ASave \/ AStop
    \/ ZDelay \/ ZRunStart \/ ZLoop \/ ZHttp \/ ZBackoff \/ ZPersist \/ ZPace \/ ZStop
    \/ Cancel

SpecBoth == InitBoth /\ [][NextBoth]_vars

\* a client on its own, asked for its quota state after each response
InitQuota ==
    /\ cancelled = FALSE
    /\ srvPages = <<>>
    /\ activities = {}
    /\ AInit
    /\ ZInit
    /\ SInit
    /\ TInit

NextQuota == QCheck

SpecQuota == InitQuota /\ [][NextQuota]_vars

\* The save loop of each entry point over what its fetch returned: a
\* server list of one page (the request for page 2 found it empty), to be
\* saved into an empty store
InitSave ==
    /\ cancelled = FALSE
    /\ srvPages \in { pp \in ServerPages : Len(pp) = 1 }
    /\ activities = {}
    /\ entry \in EntryPoints
    /\ pcA = "save"
    /\ allActs = Flatten(srvPages)
    /\ saveIdx = 1
    /\ rlA = ZeroRateLimit
    /\ page = 2
    /\ after = 0
    /\ attempt = 0
    /\ n429 = 0
    /\ nOther = 0
    /\ lastReq = NoReq
    /\ progressLog = <<>>
    /\ lastHdrA = NoResp
    /\ ZInit
    /\ SInit
    /\ pcT = "init"
    /\ quotaCheck = NoCheck
    /\ CLocals

NextSave == ASave \/ Cancel

SpecSave == InitSave /\ [][NextSave]_vars

\* One background task from the call of its Run to its return, with the
\* cancellation of the context it was given: the token refresher, the
\* activity syncer on a server list of at most one activity, or the zone
\* syncer with a batch size of 1 on a backlog of up to MaxShutdownBacklog
\* activities.  A task whose Run is not called has nothing to return from.
InitShutdown ==
    /\ cancelled = FALSE
    /\ SInit
    /\ XLocals
    /\ ALocals
    /\ ZLocals
    /\ zBatchSize = 1
    /\ \/ /\ pcT = "init" /\ pcA = "stopped" /\ pcZ = "stopped"
          /\ srvPages = <<>>
          /\ activities = {}
       \/ /\ pcA = "init" /\ pcT = "stopped" /\ pcZ = "stopped"
          /\ srvPages \in { pp \in ServerPages : Len(Flatten(pp)) <= 1 }
          /\ activities = {}
       \/ /\ pcZ = "delay" /\ pcT = "stopped" /\ pcA = "stopped"
          /\ srvPages = <<>>
          /\ \E n \in 0..MaxShutdownBacklog :
               activities = { ConvertActivityToParams(Activity(k)) : k \in 1..n }

\* the running code of each task: every step but the return of Run
TSteps == TCheck \/ TTick
ASteps == ARunStart \/ AHttp \/ ABackoff \/ ASave
ZSteps ==
    \/ ZDelay \/ ZRunStart \/ ZLoop \/ ZWaitRateLimit \/ ZHttp \/ ZBackoff
    \/ ZPersist \/ ZPace \/ ZPause

\* WaitForRateLimit returns the context's error
ZWaitCancelled == ZWaitRateLimit /\ cancelled /\ pcZ' = "idle"

NextShutdown == TSteps \/ TStop \/ ASteps \/ AStop \/ ZSteps \/ ZStop \/ Cancel

\* Running code takes its next step.  A select with the context done and
\* a timer or ticker ready picks either, at random each time it is
\* reached: it does not pick the timer for ever.
FairShutdown ==
    /\ WF_vars(TSteps) /\ SF_vars(TStop)
    /\ WF_vars(ASteps) /\ SF_vars(AStop)
    /\ WF_vars(ZSteps) /\ SF_vars(ZStop) /\ SF_vars(ZWaitCancelled)

SpecShutdown == InitShutdown /\ [][NextShutdown]_vars /\ FairShutdown

(***************************************************************************)
(* SyncZonesForActivity on its own: calls made one after the other on the  *)
(* zone tables, each with the zones its fetch returned.                    *)
(***************************************************************************)
\* what the fetches of these calls return: no zones, two zones, or one zone
\* that differs from the first of the two
EnrichAnswers == ZoneAnswers \cup { <<Zone("heartrate", FALSE, MaxBuckets)>> }

FirstPos == [zi |-> 1, stmt |-> "zone", bi |-> 0, zoneID |-> 0]

\* the position after the statement at pos of the loop over zs succeeded
NextPosIn(zs, pos, zoneID) ==
    LET nb == Len(zs[pos.zi].DistributionBuckets)
    IN  IF pos.stmt = "zone" THEN [pos EXCEPT !.stmt = "delete", !.zoneID = zoneID]
        ELSE IF pos.bi < nb THEN [pos EXCEPT !.stmt = "bucket", !.bi = pos.bi + 1]
        ELSE IF pos.zi < Len(zs)
        THEN [zi |-> pos.zi + 1, stmt |-> "zone", bi |-> 0, zoneID |-> 0]
        ELSE NoPos

\* the statements SyncZonesForActivity makes for zs: for each zone
\* CreateActivityZone, DeleteZoneBucketsForActivityZone and a CreateZoneBucket
\* per bucket
RECURSIVE StmtCount(_)
StmtCount(zs) ==
    IF zs = <<>> THEN 0
    ELSE 2 + Len(Head(zs).DistributionBuckets) + StmtCount(Tail(zs))

\* the tables st after the next k statements of SyncZonesForActivity(id),
\* from the one at pos on
RECURSIVE PersistFrom(_, _, _, _, _)
PersistFrom(st, id, zs, pos, k) ==
    IF k = 0 \/ pos = NoPos THEN st
    ELSE LET zone == zs[pos.zi]
             made == CreateActivityZone(st.rows, ZoneParams(id, zone))
             st1 == IF pos.stmt = "zone"
                    THEN [rows |-> made.rows,
                          buckets |-> IF made.id > Len(st.buckets)
                                      THEN Append(st.buckets, <<>>)
                                      ELSE st.buckets,
                          src |-> IF made.id > Len(st.src)
                                  THEN Append(st.src, zone.DistributionBuckets)
                                  ELSE [st.src EXCEPT ![made.id] =
                                            zone.DistributionBuckets]]
                    ELSE IF pos.stmt = "delete"
                    THEN [st EXCEPT !.buckets = DeleteZoneBuckets(@, pos.zoneID)]
                    ELSE [st EXCEPT !.buckets =
                              CreateZoneBucket(@, pos.zoneID,
                                  BucketParams(zone.DistributionBuckets[pos.bi],
                                               pos.bi))]
         IN  PersistFrom(st1, id, zs, NextPosIn(zs, pos, made.id), k - 1)

\* SyncZonesForActivity(id) whose fetch returned zs: it returns nil after
\* all its statements, or the error of the first statement that fails
Enrich ==
    /\ Len(enrichLog) < MaxEnrich
    /\ \E id \in 1..MaxIds, zs \in EnrichAnswers :
       \E k \in 0..StmtCount(zs) :
         LET st == PersistFrom([rows |-> zoneRows, buckets |-> zoneBuckets,
                                src |-> zoneSrc], id, zs, FirstPos, k)
         IN  /\ zoneRows' = st.rows
             /\ zoneBuckets' = st.buckets
             /\ zoneSrc' = st.src
             /\ enrichLog' = Append(enrichLog,
                    [id |-> id, zones |-> zs, err |-> k < StmtCount(zs),
                     rows |-> st.rows, buckets |-> st.buckets])
    /\ UNCHANGED <<cancelled, srvPages, activities, aVars, sVars, pcT, zBatchSize,
                   entry, quotaCheck, itemErrs, fVars, premiumRequired, rlZ, pcZ,
                   withoutZones, batchNum, activityIDs, idx, synced,
                   consecutiveRateLimits, zAttempt, zones, zonePos, premiumSeen,
                   skipped, streak429, lastZReq, lastBatch, runs, startCount>>

\* a store that holds the activities 1..MaxIds and no zones; no worker runs
InitEnrich ==
    /\ cancelled = FALSE
    /\ srvPages = <<>>
    /\ activities = { ConvertActivityToParams(Activity(k)) : k \in 1..MaxIds }
    /\ pcA = "stopped"
    /\ pcZ = "stopped"
    /\ pcT = "stopped"
    /\ zBatchSize = batchSize
    /\ ALocals
    /\ ZLocals
    /\ SInit
    /\ XLocals

NextEnrich == Enrich

SpecEnrich == InitEnrich /\ [][NextEnrich]_vars

(***************************************************************************)
(* SyncZones on its own: one batch, with what FetchActivityZones returns   *)
(* for each id drawn from the results its code can return.                 *)
(***************************************************************************)
\* the errors of FetchActivityZones ("nil" with zones, which may be none)
FetchErrors == {"nil", "ErrPremiumRequired", "ErrRateLimited", "fetching zones"}

\* one iteration of the loop of SyncZones: SyncZonesForActivity for
\* activityIDs[idx], whole, and what the loop does with its error
ZItem ==
    /\ pcZ = "send"
    /\ \E ferr \in (IF cancelled THEN {"fetching zones"} ELSE FetchErrors) :
       \E zs \in (IF ferr = "nil" THEN ZoneAnswers ELSE {<<>>}) :
       \E k \in 0..StmtCount(zs) :
         LET st == PersistFrom([rows |-> zoneRows, buckets |-> zoneBuckets,
                                src |-> zoneSrc], activityIDs[idx], zs, FirstPos, k)
             err == IF ferr # "nil" THEN ferr
                    ELSE IF k < StmtCount(zs) THEN "store" ELSE "nil"
         IN  /\ zoneRows' = st.rows
             /\ zoneBuckets' = st.buckets
             /\ zoneSrc' = st.src
             /\ itemErrs' = Append(itemErrs, err)
             /\ ApplyCtl(ItemDone(ZCtl, err))
    /\ UNCHANGED <<cancelled, srvPages, activities, aVars, sVars, pcT, zBatchSize,
                   entry, quotaCheck, enrichLog, fVars, batchNum, zAttempt, zones, zonePos,
                   premiumSeen, skipped, streak429, lastZReq, runs, startCount>>

\* SyncZones has read its batch from a backlog of up to MaxBacklog
\* activities and is at its first id
InitBatch ==
    /\ cancelled = FALSE
    /\ srvPages = <<>>
    /\ \E n \in 1..MaxBacklog :
         /\ activities = { ConvertActivityToParams(Activity(k)) : k \in 1..n }
         /\ withoutZones = n
         /\ startCount = n
    /\ zBatchSize \in {batchSize, MaxBacklog}
    /\ zoneRows = <<>>
    /\ zoneBuckets = <<>>
    /\ zoneSrc = <<>>
    /\ activityIDs = GetActivitiesWithoutZones(zBatchSize)
    /\ idx = 1
    /\ synced = 0
    /\ consecutiveRateLimits = 0
    /\ pcZ = "send"
    /\ batchNum = 1
    /\ runs = 1
    /\ premiumRequired = FALSE
    /\ rlZ = ZeroRateLimit
    /\ zAttempt = 0
    /\ zones = <<>>
    /\ zonePos = NoPos
    /\ premiumSeen = FALSE
    /\ skipped = FALSE
    /\ streak429 = 0
    /\ lastZReq = NoZReq
    /\ lastBatch = NoBatch
    /\ pcA = "stopped"
    /\ pcT = "stopped"
    /\ ALocals
    /\ SInit
    /\ XLocals

NextBatch == ZItem \/ ZPace \/ Cancel

SpecBatch == InitBatch /\ [][NextBatch]_vars

(***************************************************************************)
(* parseRateLimitHeaders on its own: the two header pairs of one response  *)
(***************************************************************************)
\* the figures one source gives: a limit and a usage per window
Figures(l15, ld, u15, ud) == [l15 |-> l15, ld |-> ld, u15 |-> u15, ud |-> ud]
PairLimits == {0, 3, 7}
PairUsages == {0, 2, 4}
SourceFigures ==
    { Figures(l15, ld, u15, ud) :
        l15 \in PairLimits, ld \in PairLimits, u15 \in PairUsages, ud \in PairUsages }

\* how a figure of 0 is sent: the part (or the whole header) left out, the
\* number 0, or text strconv.Atoi rejects
Encodings == {"absent", "zero", "text"}

\* the value of a header "a,b"
HeaderValue(a, b, enc) ==
    LET tok(v) == IF v # 0 \/ enc = "zero" THEN Num(v) ELSE NotNum
    IN  IF enc = "absent" /\ a = 0 /\ b = 0 THEN <<>>
        ELSE IF enc = "absent" /\ b = 0 THEN <<tok(a)>>
        ELSE <<tok(a), tok(b)>>

\* the headers of a response that carries the figures g and r
PairHeaders(g, r, enc) ==
    Hdr(HeaderValue(g.l15, g.ld, enc), HeaderValue(g.u15, g.ud, enc),
        HeaderValue(r.l15, r.ld, enc), HeaderValue(r.u15, r.ud, enc))

\* parseRateLimitHeaders on the headers of the response
QParse ==
    /\ ~parseCheck.asked
    /\ parseCheck' = [parseCheck EXCEPT !.asked = TRUE,
           !.info = parseRateLimitHeaders(
                        PairHeaders(parseCheck.general, parseCheck.read,
                                    parseCheck.enc))]
    /\ UNCHANGED <<cancelled, srvPages, activities, aVars, zVars, sVars, pcT,
                   zBatchSize, entry, quotaCheck, enrichLog, itemErrs, clockCheck,
                   backoffCheck>>

\* a response with the figures of its two sources, not parsed yet
InitParse ==
    /\ cancelled = FALSE
    /\ srvPages = <<>>
    /\ activities = {}
    /\ AInit
    /\ ZInit
    /\ SInit
    /\ pcT = "init"
    /\ entry = "syncActivities"
    /\ quotaCheck = NoCheck
    /\ enrichLog = <<>>
    /\ itemErrs = <<>>
    /\ clockCheck = NoClock
    /\ backoffCheck = NoBackoff
    /\ \E g \in SourceFigures, r \in SourceFigures, enc \in Encodings :
         parseCheck = [NoParse EXCEPT !.general = g, !.read = r, !.enc = enc]

NextParse == QParse

SpecParse == InitParse /\ [][NextParse]_vars

(***************************************************************************)
(* The reset times on their own                                            *)
(***************************************************************************)
\* the instants: every minute of the day, the first and the last
\* millisecond of a minute and some between, in UTC and in a zone 5 h 45
\* min east of it
ZoneOffsets == {0, 345}
Instants ==
    [hour : 0..23, minute : 0..59, second : {0, 1, 59}, ms : {0, 1, 999},
     offset : ZoneOffsets]

\* timeUntilNext15MinWindow(now) and timeUntilMidnightUTC(now)
TimeCheck ==
    /\ ~clockCheck.asked
    /\ clockCheck' = [clockCheck EXCEPT !.asked = TRUE,
           !.wait15 = timeUntilNext15MinWindow(clockCheck.now),
           !.waitDay = timeUntilMidnightUTC(clockCheck.now)]
    /\ UNCHANGED <<cancelled, srvPages, activities, aVars, zVars, sVars, pcT,
                   zBatchSize, entry, quotaCheck, enrichLog, itemErrs, parseCheck,
                   backoffCheck>>

InitClock ==
    /\ cancelled = FALSE
    /\ srvPages = <<>>
    /\ activities = {}
    /\ AInit
    /\ ZInit
    /\ SInit
    /\ pcT = "init"
    /\ entry = "syncActivities"
    /\ quotaCheck = NoCheck
    /\ enrichLog = <<>>
    /\ itemErrs = <<>>
    /\ parseCheck = NoParse
    /\ backoffCheck = NoBackoff
    /\ \E now \in Instants : clockCheck = [NoClock EXCEPT !.now = now]

NextClock == TimeCheck

SpecClock == InitClock /\ [][NextClock]_vars

(***************************************************************************)
(* The exponential backoff on its own: Backoff called with the attempt     *)
(* numbers 0, 1, 2, ... of one request under a retry configuration.        *)
(***************************************************************************)
\* the configurations: the default one, and waits of milliseconds
RetryWaits ==
    { [min |-> defaultInitialBackoff, max |-> defaultMaxBackoff],
      [min |-> Word(1000000), max |-> SecondNs],
      [min |-> Word(1000000), max |-> Word(1000000)] }

\* Backoff(min, max, attemptNum, resp) for the next attempt number
BackoffCall ==
    /\ backoffCheck.called => backoffCheck.attemptNum < MaxAttemptNum
    /\ LET n == IF backoffCheck.called THEN backoffCheck.attemptNum + 1 ELSE 0
       IN  backoffCheck' = [backoffCheck EXCEPT !.called = TRUE, !.attemptNum = n,
               !.wait = ExponentialBackoff(backoffCheck.min, backoffCheck.max, n),
               !.prev = IF backoffCheck.called THEN backoffCheck.wait
                        ELSE backoffCheck.min]
    /\ UNCHANGED <<cancelled, srvPages, activities, aVars, zVars, sVars, pcT,
                   zBatchSize, entry, quotaCheck, enrichLog, itemErrs, parseCheck,
                   clockCheck>>

InitBackoff ==
    /\ cancelled = FALSE
    /\ srvPages = <<>>
    /\ activities = {}
    /\ AInit
    /\ ZInit
    /\ SInit
    /\ pcT = "init"
    /\ entry = "syncActivities"
    /\ quotaCheck = NoCheck
    /\ enrichLog = <<>>
    /\ itemErrs = <<>>
    /\ parseCheck = NoParse
    /\ clockCheck = NoClock
    /\ \E cfg \in RetryWaits :
         backoffCheck = [NoBackoff EXCEPT !.min = cfg.min, !.max = cfg.max]

NextBackoff == BackoffCall

SpecBackoff == InitBackoff /\ [][NextBackoff]_vars

(***************************************************************************)
(* Properties of the page fetch                                            *)
(***************************************************************************)
\* the page request that has just returned was the last of a fetch that
\* ended without error
FetchDone == lastReq.page # 0 /\ lastReq.err = "nil" /\ lastReq.items = <<>>

\* the number of activities on the first k pages of the server
Cumulative(k) ==
    Len(Flatten(SubSeq(srvPages, 1, IF k <= Len(srvPages) THEN k ELSE Len(srvPages))))

C6_RateLimitRetry ==
    /\ (lastReq.page # 0 /\ lastReq.status = StatusOK /\ lastReq.nOther = 0) =>
          /\ lastReq.n429 <= RetryMax
          /\ lastReq.attempts = lastReq.n429 + 1
          /\ lastReq.err = "nil"
          /\ lastReq.items = ListPage(srvPages, lastReq.page, after)
          /\ lastReq.page = Len(progressLog)
          /\ \A k \in 1..Len(progressLog) : progressLog[k].page = k
          /\ lastReq.items # <<>> =>
                /\ pcA = "send"
                /\ page = lastReq.page + 1
                /\ attempt = 0
    /\ (lastReq.page # 0 /\ lastReq.status = StatusTooManyRequests) =>
          lastReq.attempts = RetryMax + 1

\* RetryMax 429s and then the page, after which the next page is requested
C6_Witness ==
    /\ lastReq.status = StatusOK
    /\ lastReq.nOther = 0
    /\ lastReq.n429 = RetryMax
    /\ lastReq.n429 > 0
    /\ lastReq.page = 2
    /\ lastReq.items # <<>>
    /\ pcA = "send"
    /\ page = 3

\* C9: whatever response the client has just received, retried ones
\* included, the stored rate limit holds its limits and usages.
C9_EveryResponseUpdates ==
    lastHdrA # NoResp => Quota(rlA) = Quota(lastHdrA[1])

\* C3: a 404, from the list endpoint or from the zones endpoint, ends the
\* request at once and reaches the caller as an empty result, no error.
C3_NotFoundIsNoData ==
    /\ (lastReq.page # 0 /\ lastReq.status = StatusNotFound) =>
          /\ lastReq.err = "nil"
          /\ lastReq.items = <<>>
    /\ (lastZReq.id # 0 /\ lastZReq.status = StatusNotFound) =>
          lastZReq.err = "nil"

\* C4: a 402, from the list endpoint or from the zones endpoint, ends the
\* request at once and reaches the caller as ErrPremiumRequired.
C4_PremiumIsSentinel ==
    /\ (lastReq.page # 0 /\ lastReq.status = StatusPaymentRequired) =>
          lastReq.err = "ErrPremiumRequired"
    /\ (lastZReq.id # 0 /\ lastZReq.status = StatusPaymentRequired) =>
          lastZReq.err = "ErrPremiumRequired"

(***************************************************************************)
(* Properties of the zone syncer                                           *)
(***************************************************************************)
\* C1: once a zones request has been answered 402 the zone syncer is
\* disabled: the run in progress is over with the rest of its batch
\* unfetched, and the syncer is never again at a request, a backoff or a
\* statement on the store: every later run returns at its first check.
C1_PremiumDisables ==
    premiumSeen =>
      /\ premiumRequired
      /\ pcZ \in {"idle", "stopped"}
      /\ activityIDs = <<>>
      /\ lastBatch.err \in {"ErrPremiumRequired", "none"}

\* a 402 with activities left in the backlog, and a later run that returned
\* at once
C1_Witness ==
    /\ premiumSeen
    /\ skipped
    /\ CountActivitiesWithoutZones >= 2

\* C2: when the requests of 3 items in a row of one batch end on a 429, the
\* batch is over at the third with ErrRateLimited.
C2_CircuitBreaker ==
    streak429 >= maxConsecutiveRateLimits =>
      /\ lastBatch.err = "ErrRateLimited"
      /\ pcZ \notin {"send", "backoff", "persist", "pace"}

\* the buckets the query layer reads for an activity_zones row are the
\* buckets last fetched for it, all of them
StoredAsFetched(k) ==
    GetZoneBuckets(k) = [i \in 1..Len(zoneSrc[k]) |-> BucketParams(zoneSrc[k][i], i)]

\* C8: whenever the store is read, every activity_zones row has the complete
\* bucket set of the fetch that wrote it: never none, never a part.
C8_AtomicReplace ==
    \A k \in 1..Len(zoneRows) : StoredAsFetched(k)

\* C10: the two syncers share one rate limit: at the first check of the zone
\* syncer's first run, before any zones request, it reads the limits and
\* usages the activity syncer's responses have stored.
C10_SharedQuota ==
    (pcZ = "loop" /\ runs = 1 /\ batchNum = 0) =>
        Quota(GetRateLimit(rlZ)) = Quota(GetRateLimit(rlA))

(***************************************************************************)
(* Properties of the store                                                 *)
(***************************************************************************)
\* the last two direct calls of CreateActivity had the same id
SameIdTwice ==
    /\ Len(calls) >= 2
    /\ calls[Len(calls)].id = calls[Len(calls) - 1].id

\* C7: after CreateActivity has been applied twice with the same id, the
\* table holds exactly one row of that id, with the values of the second
\* call, and the rows of every other id are as they were before the two
\* calls.
C7_UpsertTwice ==
    SameIdTwice =>
      LET second == calls[Len(calls)]
          before == snaps[Len(calls) - 1]
      IN  /\ { r \in activities : r.id = second.id } = {second}
          /\ { r \in activities : r.id # second.id }
               = { r \in before : r.id # second.id }

\* two calls with the same id and different values, next to another row
C7_Witness ==
    /\ SameIdTwice
    /\ calls[Len(calls)] # calls[Len(calls) - 1]
    /\ \E r \in activities : r.id # calls[Len(calls)].id

(***************************************************************************)
(* Properties of a failed page fetch                                       *)
(***************************************************************************)
\* what the pages before page k hold of the list newer than the cursor
FetchedBefore(k) == Flatten([j \in 1..(k - 1) |-> ListPage(srvPages, j, after)])

\* C18: when the fetch of page k fails after its retries,
\* FetchAllActivities and FetchActivitiesSince stop the page loop (no page
\* beyond k is requested) and return exactly the items of pages 1..k-1
\* together with the error.
C18_FailedPageStops ==
    (lastReq.page # 0 /\ lastReq.err # "nil") =>
        /\ pcA \notin {"send", "backoff"}
        /\ page = lastReq.page
        /\ allActs = FetchedBefore(lastReq.page)

\* the request for a page after the first failed after a retry, and the
\* pages before it were not empty
C18_Witness ==
    /\ lastReq.page > 1
    /\ lastReq.err # "nil"
    /\ lastReq.retried
    /\ allActs # <<>>
    /\ allActs = FetchedBefore(lastReq.page)

\* C17: when a replication run fails on the fetch of page k > 1, the
\* records of pages 1..k-1 that were fetched are persisted, so that the
\* next scheduled run resumes from an advanced cursor and does not fetch
\* them again: once the run is over, each of them has a row in the table.
C17_PartialProgressSaved ==
    (lastReq.page > 1 /\ lastReq.err # "nil" /\ pcA = "idle" /\ ~cancelled) =>
        \A i \in 1..Len(allActs) : \E r \in activities : r.id = allActs[i].id

\* C16: in every replication entry point a persistence failure for one
\* fetched record is skipped and the upsert of every remaining fetched
\* record is still attempted: unless the context is done, the save loop
\* does not end before CreateActivity was called for the last record.
C16_FailureSkipped ==
    (pcA = "idle" /\ ~cancelled) => saveIdx >= Len(allActs)

\* the page request that has just returned failed retryably on every
\* attempt: RetryMax retried failures, and a last attempt that ended on a
\* 429, a 5xx or a transport failure
AllAttemptsFailed ==
    /\ lastReq.page # 0
    /\ lastReq.n429 + lastReq.nOther = RetryMax
    /\ \/ lastReq.status = StatusTooManyRequests
       \/ lastReq.status >= 500
       \/ lastReq.status = 0 /\ ~cancelled

\* C23: one logical request whose every attempt fails retryably issues at
\* most RetryMax + 1 HTTP requests and then returns an error to its
\* caller; the worker logs the error and its periodic loop keeps running
\* (until the context is cancelled).
C23_RetriesBounded ==
    /\ attempt <= RetryMax
    /\ lastReq.attempts <= RetryMax + 1
    /\ AllAttemptsFailed =>
          /\ lastReq.attempts = RetryMax + 1
          /\ lastReq.err # "nil"
          /\ ~cancelled => pcA = "idle" /\ ENABLED ARunStart

\* a request gave up after a 429, a transport failure or 5xx, and a last 5xx
C23_Witness ==
    /\ AllAttemptsFailed
    /\ lastReq.n429 > 0
    /\ lastReq.nOther > 0
    /\ lastReq.status >= 500
    /\ pcA = "idle"

\* the timestamps persisted, and the most recent of them (0 when none)
Timestamps == { r.start.Time : r \in { q \in activities : q.start.Valid } }
LatestTimestamp ==
    IF Timestamps = {} THEN 0 ELSE CHOOSE t \in Timestamps : \A u \in Timestamps : u <= t

\* C25: a delta replication run computes its cursor once, before the first
\* page request, from the most recent persisted record's timestamp, and
\* sends that same cursor as the after parameter on every page request of
\* the run; when no record (or none with a timestamp) is persisted the run
\* sends no after parameter (after = 0) and is a full sync.
C25_CursorOnce ==
    [][/\ (pcA \in {"init", "idle"} /\ pcA' = "send") =>
             /\ after' \in {0, LatestTimestamp}
             /\ Timestamps = {} => after' = 0
       /\ pcA \in {"send", "backoff"} => after' = after]_vars

\* the second page of a delta run is about to be requested with the cursor
C25_Witness ==
    /\ pcA = "send"
    /\ page = 2
    /\ after # 0
    /\ after = LatestTimestamp
    /\ Cardinality(activities) > 1

(***************************************************************************)
(* Properties of the enrichment run                                        *)
(***************************************************************************)
\* the last known quota state of the zone syncer's client has a window
\* exceeded or approaching
QuotaNear ==
    LET rateLimit == GetRateLimit(rlZ)
    IN  \/ IsApproachingDailyLimit(rateLimit)
        \/ IsApproaching15MinLimit(rateLimit)
        \/ rateLimit.IsRateLimited

\* C13: the enrichment run checks the quota state before each backlog
\* item: no enrichment request is issued while the last known quota state
\* has the daily or the short window exceeded or approaching.  (Stated for
\* the first attempt of an item's request.)
C13_QuotaBeforeEachItem == pcZ = "send" /\ zAttempt = 0 => ~QuotaNear

\* C12: once cancellation has been signalled during an enrichment batch,
\* SyncZones exits at its next loop check and returns the cancellation
\* error: when the request of an item has been ended by the done context,
\* no request for a remaining item follows, and what SyncZones returns is
\* the context's error.
C12_CancelEndsBatch ==
    lastZReq.ctx =>
        /\ pcZ # "send"
        /\ lastBatch # NoBatch => lastBatch.err = "context"

\* C15: when the request of a backlog item ends rate-limited and fewer
\* items than the threshold have done so in a row, the run waits for the
\* short window and then retries the same item: the item is not skipped,
\* the next enrichment request is for that same record id.
C15_RetrySameItem ==
    (/\ lastZReq.id # 0
     /\ lastZReq.status = StatusTooManyRequests
     /\ streak429 < maxConsecutiveRateLimits
     /\ ~cancelled)
    => \/ pcZ = "waitRL"
       \/ pcZ = "send" /\ activityIDs[idx] = lastZReq.id

\* C27: a record that is no longer in the enrichment backlog (it has a
\* zone row, so GetActivitiesWithoutZones does not return it) has the
\* complete bucket set of its last fetch stored; a record whose enrichment
\* persistence failed part-way is still in the backlog.  (Stated for the
\* records SyncZonesForActivity is not writing at the moment.)
C27_OutOfBacklogIsComplete ==
    \A r \in activities \ WithoutZones :
        \/ pcZ = "persist" /\ activityIDs[idx] = r.id
        \/ \A k \in 1..Len(zoneRows) :
              zoneRows[k].activity_id = r.id => StoredAsFetched(k)

\* C28: every record that SyncZones counts as synced has left the
\* backlog, a record for which the source reports no zone data included:
\* it is not returned by a later backlog query and not fetched again.
C28_SyncedLeavesBacklog ==
    pcZ = "pace" => \A r \in WithoutZones : r.id # activityIDs[idx]

C14_WaitThenProceed ==
    (pcZ = "waitRL" /\ ~cancelled)
        ~> (cancelled \/ pcZ \in {"send", "idle", "stopped"})

(***************************************************************************)
(* Properties of the quota state                                           *)
(***************************************************************************)
\* what is said of the wait w recommended for the quota state i
WaitAsClaimed(i, w) ==
    LET shortExceeded == i.Limit15Min # 0 /\ i.Usage15Min >= i.Limit15Min
        dailyExceeded == i.LimitDaily # 0 /\ i.UsageDaily >= i.LimitDaily
        shortNear == i.Limit15Min # 0 /\ i.Usage15Min >= i.Limit15Min - 5
        dailyNear == i.LimitDaily # 0 /\ i.UsageDaily >= i.LimitDaily - 5
    IN  /\ shortExceeded => w = "15min"
        /\ ~shortExceeded /\ dailyExceeded => w = "daily"
        /\ ~shortExceeded /\ ~dailyExceeded =>
              /\ w = "15min" => shortNear
              /\ w = "daily" => dailyNear
        /\ w = "none" <=> ~(shortExceeded \/ dailyExceeded \/ shortNear \/ dailyNear)

\* C19: for every quota state, the recommended wait of a snapshot (and of
\* the info parsed from the headers) is the short window's reset time if
\* the short usage has reached a known short limit, also when the daily
\* window is exceeded too; otherwise the daily reset time if the daily
\* usage has reached a known daily limit; otherwise the reset time of a
\* window that is approaching its limit; and it is 0 exactly when no window
\* with a known limit is exceeded or approaching.
C19_RecommendedWait ==
    /\ WaitAsClaimed(quotaCheck.info, quotaCheck.ShouldWaitForRateLimit)
    /\ WaitAsClaimed(quotaCheck.parsed, quotaCheck.parsedWait)

\* both windows exceeded, and the wait is that of the short one
C19_Witness ==
    /\ quotaCheck.asked
    /\ quotaCheck.info.Limit15Min > 0
    /\ quotaCheck.info.Usage15Min >= quotaCheck.info.Limit15Min
    /\ quotaCheck.info.LimitDaily > 0
    /\ quotaCheck.info.UsageDaily >= quotaCheck.info.LimitDaily
    /\ quotaCheck.ShouldWaitForRateLimit = "15min"

\* C20: for each window the approaching predicate is true exactly when
\* the limit is not 0 and usage >= limit - 5; with limit 0 it is false for
\* every usage.
C20_Approaching ==
    LET i == quotaCheck.info
    IN  /\ quotaCheck.IsApproaching15MinLimit
              <=> (i.Limit15Min # 0 /\ i.Usage15Min >= i.Limit15Min - 5)
        /\ quotaCheck.IsApproachingDailyLimit
              <=> (i.LimitDaily # 0 /\ i.UsageDaily >= i.LimitDaily - 5)
        /\ i.Limit15Min = 0 => ~quotaCheck.IsApproaching15MinLimit
        /\ i.LimitDaily = 0 => ~quotaCheck.IsApproachingDailyLimit

\* a usage exactly 5 below a known short limit is approaching it
C20_Witness ==
    /\ quotaCheck.asked
    /\ quotaCheck.info.Limit15Min > 5
    /\ quotaCheck.info.Usage15Min = quotaCheck.info.Limit15Min - 5
    /\ quotaCheck.IsApproaching15MinLimit

(***************************************************************************)
(* Properties of the batches of one invocation                             *)
(***************************************************************************)
CeilDiv(a, b) == (a + b - 1) \div b

\* C30: an invocation of syncZonesContinuously runs at most
\* ceil(N / batchSize) batches, N being the backlog count it read at its
\* start; it goes on to a further batch only after a batch that synced
\* batchSize records and left a remaining estimate above 0, and it has
\* returned once a batch without error synced fewer or left no remainder.
C30_BatchesBounded ==
    /\ batchNum <= CeilDiv(startCount, zBatchSize)
    /\ pcZ = "pause" => lastBatch.synced >= zBatchSize /\ withoutZones > 0
    /\ (lastBatch.err = "nil"
          /\ (lastBatch.synced < zBatchSize \/ withoutZones <= 0))
           => pcZ \in {"idle", "stopped"}

\* a second batch has ended an invocation that began with more records
\* than one batch takes
C30_Witness ==
    /\ batchNum = 2
    /\ startCount > zBatchSize
    /\ lastBatch.err = "nil"
    /\ lastBatch.n > 0
    /\ pcZ = "idle"

(***************************************************************************)
(* Properties of SyncZonesForActivity run again                            *)
(***************************************************************************)
\* the bucket rows SyncZonesForActivity writes for a zone
BucketRows(zone) ==
    [i \in 1..Len(zone.DistributionBuckets) |->
        BucketParams(zone.DistributionBuckets[i], i)]

\* call k of the log and the call after it returned nil for the same id
\* and the same zones
RanTwice(k) ==
    /\ k + 1 <= Len(enrichLog)
    /\ enrichLog[k].id = enrichLog[k + 1].id
    /\ enrichLog[k].zones = enrichLog[k + 1].zones
    /\ ~enrichLog[k].err
    /\ ~enrichLog[k + 1].err

\* C24: for a given fetched result, SyncZonesForActivity run twice in a row
\* for the same record leaves the zone rows and bucket rows that running it
\* once left: the buckets of each fetched zone with their numbers, ranges
\* and times, no (activity, zone type) stored twice and no bucket number
\* stored twice under a zone.
C24_TwiceIsOnce ==
    /\ \A k \in 1..Len(enrichLog) :
          RanTwice(k) =>
            /\ enrichLog[k + 1].rows = enrichLog[k].rows
            /\ enrichLog[k + 1].buckets = enrichLog[k].buckets
            /\ \A z \in 1..Len(enrichLog[k].zones) :
                  \E r \in 1..Len(enrichLog[k + 1].rows) :
                    /\ enrichLog[k + 1].rows[r] =
                           ZoneParams(enrichLog[k].id, enrichLog[k].zones[z])
                    /\ enrichLog[k + 1].buckets[r] = BucketRows(enrichLog[k].zones[z])
    /\ \A r, q \in 1..Len(zoneRows) :
          (/\ zoneRows[r].activity_id = zoneRows[q].activity_id
           /\ zoneRows[r].zone_type = zoneRows[q].zone_type) => r = q
    /\ \A r \in 1..Len(zoneBuckets) : \A i, j \in 1..Len(zoneBuckets[r]) :
          zoneBuckets[r][i].zone_number = zoneBuckets[r][j].zone_number => i = j

\* a record enriched with one zone, then twice in a row with two others
C24_Witness ==
    /\ Len(enrichLog) = 3
    /\ ~enrichLog[1].err
    /\ enrichLog[1].id = enrichLog[2].id
    /\ Len(enrichLog[1].zones) = 1
    /\ Len(enrichLog[2].zones) = 2
    /\ RanTwice(2)

(***************************************************************************)
(* Properties of the loop of SyncZones                                     *)
(***************************************************************************)
\* the ErrRateLimited results at the end of s
RECURSIVE TrailingRateLimits(_)
TrailingRateLimits(s) ==
    IF s = <<>> \/ s[Len(s)] # "ErrRateLimited" THEN 0
    ELSE 1 + TrailingRateLimits(SubSeq(s, 1, Len(s) - 1))

\* C29: in SyncZones the consecutive-rate-limit counter lies between 0 and
\* 3; it is the number of ErrRateLimited results since the last item that
\* succeeded or failed otherwise (each of which resets it to 0); and
\* SyncZones returns ErrRateLimited exactly when the last 3 items in a row
\* returned ErrRateLimited.
C29_RateLimitStreak ==
    /\ consecutiveRateLimits \in 0..maxConsecutiveRateLimits
    /\ pcZ \in {"send", "pace"} =>
          /\ consecutiveRateLimits = TrailingRateLimits(itemErrs)
          /\ consecutiveRateLimits < maxConsecutiveRateLimits
    /\ (itemErrs # <<>> /\ itemErrs[Len(itemErrs)] # "ErrRateLimited"
          /\ pcZ \in {"send", "pace"}) => consecutiveRateLimits = 0
    /\ lastBatch.err = "ErrRateLimited"
          <=> TrailingRateLimits(itemErrs) = maxConsecutiveRateLimits

\* an item that failed otherwise, then three rate-limited in a row
C29_Witness ==
    /\ lastBatch.err = "ErrRateLimited"
    /\ Len(itemErrs) = 4
    /\ itemErrs[1] \in {"fetching zones", "store"}

(***************************************************************************)
(* Properties of the two quota sources                                     *)
(***************************************************************************)
\* x is the smaller of the limits a and b, a limit of 0 being unknown
SmallerKnown(a, b, x) ==
    /\ x = 0 <=> (a = 0 /\ b = 0)
    /\ (a = 0 /\ b # 0) => x = b
    /\ (a # 0 /\ b = 0) => x = a
    /\ (a # 0 /\ b # 0) => x \in {a, b} /\ x <= a /\ x <= b

\* x is the larger of the usages a and b
Larger(a, b, x) == x \in {a, b} /\ x >= a /\ x >= b

\* C22: for every pair of quota sources in a response, the limit retained
\* per window is the smaller of the two limits, a zero or absent limit
\* being ignored as unknown (0 only when both are unknown), and the usage
\* retained per window is the larger of the two usages.
C22_RestrictiveOfTwo ==
    parseCheck.asked =>
        LET g == parseCheck.general
            r == parseCheck.read
            i == parseCheck.info
        IN  /\ SmallerKnown(g.l15, r.l15, i.Limit15Min)
            /\ SmallerKnown(g.ld, r.ld, i.LimitDaily)
            /\ Larger(g.u15, r.u15, i.Usage15Min)
            /\ Larger(g.ud, r.ud, i.UsageDaily)

\* the short limit is known to the read source only, the daily limit of
\* the read source is the smaller, and the general usage is the larger
C22_Witness ==
    /\ parseCheck.asked
    /\ parseCheck.enc = "absent"
    /\ parseCheck.general.l15 = 0
    /\ parseCheck.read.l15 > 0
    /\ parseCheck.info.Limit15Min = parseCheck.read.l15
    /\ parseCheck.read.ld > 0
    /\ parseCheck.general.ld > parseCheck.read.ld
    /\ parseCheck.info.LimitDaily = parseCheck.read.ld
    /\ parseCheck.general.u15 > parseCheck.read.u15
    /\ parseCheck.info.Usage15Min = parseCheck.general.u15

(***************************************************************************)
(* Properties of the reset times                                           *)
(***************************************************************************)
\* the milliseconds of the day at the reading, in UTC and on the wall clock
SinceMidnightUTC(now) ==
    ((now.hour * 60 + now.minute) * 60 + now.second) * 1000 + now.ms
WallClock(now) == SinceMidnightUTC(now) + now.offset * 60000

\* from the wall clock reading to the next minute 0, 15, 30 or 45
ToNextQuarter(now) ==
    ((WallClock(now) \div 900000) + 1) * 900000 - WallClock(now)

\* C21: for every instant, timeUntilNext15MinWindow is the time to the next
\* quarter-hour boundary plus 2 seconds, more than 2 seconds and at most 15
\* minutes 2 seconds; timeUntilMidnightUTC is the time to the next UTC
\* midnight plus 2 seconds, more than 2 seconds and at most 24 hours 2
\* seconds.
C21_ResetTimes ==
    clockCheck.asked =>
        /\ clockCheck.wait15 = ToNextQuarter(clockCheck.now) + 2000
        /\ clockCheck.wait15 > 2000
        /\ clockCheck.wait15 <= 15 * 60000 + 2000
        /\ clockCheck.waitDay = 86400000 - SinceMidnightUTC(clockCheck.now) + 2000
        /\ clockCheck.waitDay > 2000
        /\ clockCheck.waitDay <= 24 * 3600000 + 2000

\* the last millisecond before a boundary in the last quarter of the last
\* hour of the day
C21_Witness ==
    /\ clockCheck.asked
    /\ clockCheck.now.hour = 23
    /\ clockCheck.now.minute = 59
    /\ clockCheck.now.second = 59
    /\ clockCheck.now.ms = 999
    /\ clockCheck.now.offset = 0
    /\ clockCheck.wait15 = 2001
    /\ clockCheck.waitDay = 2001

(***************************************************************************)
(* Properties of the exponential backoff                                   *)
(***************************************************************************)
\* C26: for a retryable failure other than rate-limited and every attempt
\* number n >= 0, the wait lies between the configured minimum and maximum
\* and is not less than the wait of attempt n - 1.
C26_BackoffBounded ==
    backoffCheck.called =>
        /\ ~Greater(backoffCheck.min, backoffCheck.wait)
        /\ ~Greater(backoffCheck.wait, backoffCheck.max)
        /\ ~Greater(backoffCheck.prev, backoffCheck.wait)

====
